---------------------------- MODULE Spec2Model ----------------------------
(* A model of the zapret-ng strategy runner: the .bat strategy parser, the  *)
(* two firewall back-ends, the process manager and the Runner lifecycle     *)
(* (Start / Stop / Restart / GetStatus) run by concurrent tasks.            *)
(*                                                                          *)
(* Text is modelled as a sequence of lexemes.  Each lexeme stands for one   *)
(* fixed string of the strategy dialect ("--filter-tcp=", "443", ",", " ",  *)
(* "--new", "%GameFilter%", ...); the string functions of the code          *)
(* (ReplaceAll, TrimSpace, Fields, the filter regular expression) are       *)
(* computed over these sequences the way the code computes them over bytes. *)
EXTENDS Integers, Sequences, FiniteSets, TLC

(***************************************************************************)
(* Bounds of the model                                                     *)
(***************************************************************************)
MaxSegs == 4        \* segments of the strategy file fed to the parser
MaxWatchers == 2    \* ConfigWatcher instances alive at once
MaxEvents == 4      \* calls of Start, Stop and Restart plus injected failures in one run
MaxFsEvents == 4    \* fsnotify events delivered to one ConfigWatcher
DebounceTicks == 2  \* clock ticks that make up the debounce window of 1 s
MaxClock == 2       \* seconds the wall clock runs while Restart RPCs are served
MaxPorts == 3       \* comma-separated elements of a port specification
MaxArgLen == 5      \* characters of an argument string
MaxChildren == 3    \* children a ProcessManager tracks when StopAll is called

(***************************************************************************)
(* Lexemes                                                                 *)
(***************************************************************************)
FT == "--filter-tcp="
FU == "--filter-udp="
NewMark == "--new"
GF == "%GameFilter%"
SP == " "
COMMA == ","
DASH == "-"
CARET == "^"
NL == "\n"
TAB == "\t"
QUOTE == "\""
ArgFake == "--dpi-desync=fake"
ArgSplit == "--dpi-desync=split"
ArgPlain == "--wf-l3=ipv4"
CommentMark == "::"

\* the characters of the class [0-9,-] of the filter regex, as lexemes
PortSyms == {"80", "443", "1024", "65535", COMMA, DASH}

\* lexemes that contain one of --filter-, --hostlist, --ipset, --dpi-desync
KeywordSyms == {FT, FU, ArgFake, ArgSplit, "--hostlist=l.txt", "--ipset=i.txt"}

\* lexemes that contain a service directive (chcp, cd /d, call service.bat, set "BIN, set "LISTS)
ServiceSyms == {"chcp ", "cd /d ", "call service.bat", "set \"BIN", "set \"LISTS"}

\* lexemes a skipped comment line starts with
CommentSyms == {CommentMark, "@echo", "rem "}

(***************************************************************************)
(* String helpers of the Go standard library, over lexeme sequences        *)
(***************************************************************************)
RECURSIVE TrimLeft(_)
TrimLeft(s) == IF s # <<>> /\ Head(s) = SP THEN TrimLeft(Tail(s)) ELSE s

RECURSIVE TrimRight(_)
TrimRight(s) ==
    IF s # <<>> /\ s[Len(s)] = SP THEN TrimRight(SubSeq(s, 1, Len(s) - 1)) ELSE s

TrimSpace(s) == TrimRight(TrimLeft(s))

IsPrefixAt(s, i, pat) ==
    /\ i + Len(pat) - 1 <= Len(s)
    /\ \A k \in 1..Len(pat) : s[i + k - 1] = pat[k]

Contains(s, pat) == \E i \in 1..Len(s) : IsPrefixAt(s, i, pat)

\* strings.ReplaceAll: left to right, non-overlapping
RECURSIVE ReplaceFrom(_, _, _, _)
ReplaceFrom(s, i, pat, rep) ==
    IF i > Len(s) THEN <<>>
    ELSE IF IsPrefixAt(s, i, pat) THEN rep \o ReplaceFrom(s, i + Len(pat), pat, rep)
    ELSE <<s[i]>> \o ReplaceFrom(s, i + 1, pat, rep)

ReplaceAll(s, pat, rep) == ReplaceFrom(s, 1, pat, rep)

\* strings.Join(strings.Fields(s), " "): runs of spaces become one, none at the ends
RECURSIVE JoinFields(_)
JoinFields(s) ==
    LET t == TrimLeft(s) IN
    IF t = <<>> THEN <<>>
    ELSE LET rest == JoinFields(Tail(t)) IN
         IF Len(t) > 1 /\ t[2] = SP /\ rest # <<>>
         THEN <<Head(t), SP>> \o rest
         ELSE <<Head(t)>> \o rest

(***************************************************************************)
(* Parser (internal/strategyrunner parser)                                 *)
(***************************************************************************)
\* Parser.isSkipLine
isSkipLine(line) ==
    LET t == TrimSpace(line) IN
    \/ t = <<>>
    \/ Head(t) \in CommentSyms
    \/ \E i \in 1..Len(t) : t[i] \in ServiceSyms
    \/ ~ \E i \in 1..Len(t) : t[i] \in KeywordSyms

\* the loop "for strings.Contains(line, ",,")" of substituteVariables
RECURSIVE CollapseCommas(_)
CollapseCommas(line) ==
    IF Contains(line, <<COMMA, COMMA>>)
    THEN CollapseCommas(ReplaceAll(line, <<COMMA, COMMA>>, <<COMMA>>))
    ELSE line

\* the loop over ",}" and "{," of substituteVariables
RECURSIVE CollapseBraces(_)
CollapseBraces(line) ==
    IF Contains(line, <<COMMA, "}">>) \/ Contains(line, <<"{", COMMA>>)
    THEN CollapseBraces(ReplaceAll(ReplaceAll(line, <<COMMA, "}">>, <<"}">>),
                                   <<"{", COMMA>>, <<"{">>))
    ELSE line

\* a substitution that takes the token out and leaves its commas alone
substituteTokenOnly(p, line) ==
    LET l3 == IF p.gameFilter
              THEN ReplaceAll(line, <<GF>>, p.gameFilterPorts)
              ELSE CollapseBraces(CollapseCommas(ReplaceAll(line, <<GF>>, <<>>)))
    IN ReplaceAll(l3, <<CARET>>, <<>>)

\* Parser.substituteVariables; p is the parser: [gameFilter, gameFilterPorts]
substituteVariables(p, line) ==
    LET l1 == ReplaceAll(line, <<"%BIN%">>, <<"/usr/bin">>)
        l2 == ReplaceAll(l1, <<"%LISTS%">>, <<"/etc/zapret-ng/lists">>)
        l3 == IF p.gameFilter
              THEN ReplaceAll(l2, <<GF>>, p.gameFilterPorts)
              ELSE CollapseBraces(CollapseCommas(
                     ReplaceAll(ReplaceAll(ReplaceAll(l2, <<COMMA, GF>>, <<>>),
                                           <<GF, COMMA>>, <<>>),
                                <<GF>>, <<>>)))
    IN ReplaceAll(l3, <<CARET>>, <<>>)

\* Parser.cleanArgs
cleanArgs(args) ==
    JoinFields(ReplaceAll(TrimSpace(args), <<"\\\"">>, <<"\"">>))

\* last index of the maximal run of lexemes of S that starts at i (i-1 when empty)
RECURSIVE RunEnd(_, _, _)
RunEnd(line, i, S) ==
    IF i <= Len(line) /\ line[i] \in S THEN RunEnd(line, i + 1, S) ELSE i - 1

\* index of the first "--new" at or after k, Len+1 when there is none
RECURSIVE FirstNew(_, _)
FirstNew(line, k) ==
    IF k > Len(line) THEN Len(line) + 1
    ELSE IF line[k] = NewMark THEN k
    ELSE FirstNew(line, k + 1)

NoMatch == [ok |-> FALSE]

\* a match whose argument group is greedy: it runs to the end of the line
MatchGreedy(line, i) ==
    IF line[i] \notin {FT, FU} THEN NoMatch
    ELSE LET pe == RunEnd(line, i + 1, PortSyms)
             we == RunEnd(line, pe + 1, {SP})
         IN IF pe < i + 1 \/ we < pe + 1 THEN NoMatch
            ELSE [ok |-> TRUE,
                  protocol |-> IF line[i] = FT THEN "tcp" ELSE "udp",
                  ports |-> SubSeq(line, i + 1, pe),
                  args |-> SubSeq(line, we + 1, Len(line)),
                  next |-> Len(line) + 1]

\* one match of --filter-(tcp|udp)=([0-9,-]+)\s+(.*?)(?:--new|$) anchored at i
MatchAt(line, i) ==
    IF line[i] \notin {FT, FU} THEN NoMatch
    ELSE LET pe == RunEnd(line, i + 1, PortSyms)
             we == RunEnd(line, pe + 1, {SP})
             n == FirstNew(line, we + 1)
         IN IF pe < i + 1 \/ we < pe + 1 THEN NoMatch
            ELSE [ok |-> TRUE,
                  protocol |-> IF line[i] = FT THEN "tcp" ELSE "udp",
                  ports |-> SubSeq(line, i + 1, pe),
                  args |-> SubSeq(line, we + 1, n - 1),
                  next |-> IF n <= Len(line) THEN n + 1 ELSE Len(line) + 1]

\* filterRegex.FindAllStringSubmatch(line, -1): leftmost, non-overlapping
RECURSIVE FindAll(_, _)
FindAll(line, i) ==
    IF i > Len(line) THEN <<>>
    ELSE LET m == MatchAt(line, i) IN
         IF m.ok THEN <<m>> \o FindAll(line, m.next)
         ELSE FindAll(line, i + 1)

\* a loop that counts a match before it looks at its arguments
RECURSIVE ParseMatchesCounting(_, _)
ParseMatchesCounting(st, ms) ==
    IF ms = <<>> THEN st
    ELSE LET m == Head(ms)
             nfqwsArgs == TrimSpace(m.args)
             counted == [st EXCEPT !.queueNum = @ + 1]
         IN IF nfqwsArgs = <<>> THEN ParseMatchesCounting(counted, Tail(ms))
            ELSE ParseMatchesCounting(
                   [rules |-> Append(st.rules,
                                     [Protocol |-> m.protocol,
                                      Ports |-> m.ports,
                                      NFQWSArgs |-> cleanArgs(nfqwsArgs),
                                      QueueNum |-> st.queueNum]),
                    queueNum |-> st.queueNum + 1],
                   Tail(ms))

\* the body of the loop "for _, match := range matches" of Parse:
\* st = [rules, queueNum], the matches still to visit
RECURSIVE ParseMatches(_, _)
ParseMatches(st, ms) ==
    IF ms = <<>> THEN st
    ELSE LET m == Head(ms)
             nfqwsArgs == TrimSpace(m.args)
         IN IF nfqwsArgs = <<>> THEN ParseMatches(st, Tail(ms))
            ELSE ParseMatches(
                   [rules |-> Append(st.rules,
                                     [Protocol |-> m.protocol,
                                      Ports |-> m.ports,
                                      NFQWSArgs |-> cleanArgs(nfqwsArgs),
                                      QueueNum |-> st.queueNum]),
                    queueNum |-> st.queueNum + 1],
                   Tail(ms))

\* one iteration of the scanner loop of Parse
ParseLine(p, st, line) ==
    IF isSkipLine(line) THEN st
    ELSE ParseMatches(st, FindAll(substituteVariables(p, line), 1))

RECURSIVE ParseLines(_, _, _)
ParseLines(p, st, lines) ==
    IF lines = <<>> THEN st
    ELSE ParseLines(p, ParseLine(p, st, Head(lines)), Tail(lines))

\* Parser.Parse: content is the file at the path, which may not exist
Parse(p, content) ==
    IF ~content.exists THEN [err |-> "open", Rules |-> <<>>]
    ELSE LET st == ParseLines(p, [rules |-> <<>>, queueNum |-> 0], content.lines) IN
         IF Len(st.rules) = 0 THEN [err |-> "empty", Rules |-> <<>>]
         ELSE [err |-> "nil", Rules |-> st.rules]

\* NewParser: only the fields substituteVariables reads
NewParser(gameFilterPorts, gameFilterEnabled) ==
    [gameFilter |-> gameFilterEnabled, gameFilterPorts |-> gameFilterPorts]

(***************************************************************************)
(* Configurations and files on disk                                        *)
(***************************************************************************)
DefaultGameFilterPorts == <<"1024", DASH, "65535">>
NftComment == "Added by zapret-ng"
RuleComment == "Added by zapret"
IptChain == "zapret_output"

MkConfig(iface, gf, file, backend, table) ==
    [Interface |-> iface, GameFilter |-> gf,
     GameFilterPorts |-> DefaultGameFilterPorts, StrategyFile |-> file,
     Backend |-> backend, TableName |-> table, ChainName |-> "output"]

CfgA == MkConfig("any", TRUE, "general.bat", "nftables", "inet zapretunix")
CfgB == MkConfig("eth0", FALSE, "general.bat", "nftables", "inet zapretunix")
CfgC == MkConfig("any", TRUE, "simple.bat", "iptables", "inet zapretunix")
CfgD == MkConfig("eth0", TRUE, "simple.bat", "iptables", "inet zapretunix")
CfgEmpty == MkConfig("any", TRUE, "empty.bat", "nftables", "inet zapretunix")
CfgNoFile == MkConfig("any", TRUE, "gone.bat", "nftables", "inet zapretunix")
CfgBad == MkConfig("any", TRUE, "general.bat", "pf", "inet zapretunix")

\* what the strategy-runner YAML may hold; an unreadable YAML yields no config
Yaml(c) == [readable |-> TRUE, cfg |-> c]
CorruptYaml == [readable |-> FALSE, cfg |-> CfgBad]
DiskConfigs ==
    {Yaml(c) : c \in {CfgA, CfgB, CfgC, CfgEmpty, CfgNoFile}} \cup {CorruptYaml}

Families == {"v4", "v6"}
TableNames == {"inet zapretunix"}

\* the strategy files on disk: two groups of which the second needs
\* %GameFilter%; one rule; comments only; and a path that does not exist
File(lines) == [exists |-> TRUE, lines |-> lines]
MissingFile == [exists |-> FALSE, lines |-> <<>>]
FileGeneral == File(<< <<CommentMark, SP, ArgPlain>>,
                       <<FT, "80", COMMA, "443", SP, ArgSplit, SP, NewMark, SP,
                         FU, GF, SP, ArgFake>> >>)
FileSimple == File(<< <<FT, "443", SP, ArgFake>> >>)
FileEmpty == File(<< <<CommentMark, SP, ArgPlain>> >>)
StrategyFiles ==
    [path \in {"general.bat", "simple.bat", "empty.bat", "gone.bat"} |->
       CASE path = "general.bat" -> FileGeneral
         [] path = "simple.bat" -> FileSimple
         [] path = "empty.bat" -> FileEmpty
         [] OTHER -> MissingFile]

(***************************************************************************)
(* State                                                                   *)
(***************************************************************************)
VARIABLES
    running,        \* Runner.running
    config,         \* Runner.config
    parser,         \* Runner.parser
    fw,             \* Runner.fw: the firewall instance
    processes,      \* ProcessManager.processes: the queue number of each child
    watcher,        \* Runner.watcher: 0 is nil, else the id of a ConfigWatcher
    lastParsedLen,  \* Runner.lastParsedLen
    mu,             \* Runner.mu: "none" is unlocked, else the task holding the write lock
    watch,          \* mainCfg.Watch
    nft,            \* kernel: nftables tables by name
    ipt,            \* kernel: the filter table of iptables, per family
    watchers,       \* ConfigWatcher instances by id
    task,           \* the tasks (goroutines) calling into the Runner
    faults,         \* injected subsystem failures so far
    calls,          \* calls of Start, Stop and Restart so far
    lastDone,       \* history: the last Start or Stop that returned, its error, and
                    \* whether it passed its check of r.running
    pst,            \* parser run: [rules, queueNum] of the scanner loop
    pGameFilter,    \* parser run: Parser.gameFilter
    pSegs,          \* parser run: segments of the file read so far
    pLine,          \* parser run: the segments of the line being read
    pSkipAt,        \* history: rules emitted before the first match skipped for
                    \* empty arguments, -1 while no match was skipped
    files,          \* disk: the strategy files by path
    overwritten,    \* history: ticks since the running strategy file was
                    \* overwritten (capped), -1 while it was not
    wState,         \* one ConfigWatcher: "watching" until Stop, then "stopped"
    wTimers,        \* its pending time.AfterFunc timers: ticks left for each
    wSince,         \* history: ticks since the last Write it handled (capped)
    wBurst,         \* history: callbacks invoked since the current burst began
    wEvents,        \* history: events on the watched path
    wWrites,        \* history: events with the Write bit delivered to it
    wFired,         \* history: callbacks invoked in all
    serving,        \* NewTwirpServer has returned the handler
    restartCount,   \* Server.restartCount
    startTime,      \* Server.startTime
    now,            \* the wall clock, in seconds
    rpc,            \* per handler goroutine: the request of its last Restart
                    \* RPC and what the caller got
    gPorts,         \* the port specification of the rule to generate
    aStr,           \* the argument string of a rule, character by character
    aToks,          \* the ProcessConfig.Args made of it
    snap,           \* the last Status a GetStatus returned, with the positions
                    \* the lifecycle goroutines had when it was read
    sa,             \* the frame of a ProcessManager.StopAll call and what the
                    \* operating system was asked to do to each child
    before          \* the GetStatus snapshot a caller took as it called Start

runnerVars == <<running, config, parser, fw, processes, watcher, lastParsedLen, mu, watch>>
kernelVars == <<nft, ipt>>
parseVars == <<pst, pGameFilter, pSegs, pLine, pSkipAt>>
watchVars == <<wState, wTimers, wSince, wBurst, wEvents, wWrites, wFired>>
diskVars == <<files, overwritten>>
serverVars == <<serving, restartCount, startTime, now, rpc>>
argVars == <<aStr, aToks>>
pmVars == <<sa>>
sideVars == <<diskVars, watchVars, serverVars, gPorts, argVars, snap, pmVars, before>>
vars == <<runnerVars, kernelVars, watchers, task, faults, calls, lastDone, parseVars,
          sideVars>>

(***************************************************************************)
(* Firewall back-ends                                                      *)
(***************************************************************************)
\* firewall.NewFirewall for a valid back-end name: the instance state
NewFirewall(cfg) ==
    [Backend |-> cfg.Backend, tableName |-> cfg.TableName,
     chainName |-> cfg.ChainName, Interface |-> cfg.Interface,
     comment |-> IF cfg.Backend = "nftables" THEN NftComment ELSE "",
     ruleCount |-> 0, rules |-> <<>>]

NoTable == [exists |-> FALSE, chain |-> "", rules |-> <<>>]
NoChain == [chain |-> FALSE, jump |-> FALSE, rules |-> <<>>]

\* strings.Contains(output of "nft list tables", name): the names of the model
\* are not substrings of one another
NftListContains(k, name) == k[name].exists

\* NftablesFirewall.Setup; fail names the nft command made to fail
NftSetup(f, k, fail) ==
    LET cleared == [k EXCEPT ![f.tableName] = NoTable] IN
    IF fail = "table" THEN [err |-> "failed to create table", nft |-> cleared]
    ELSE IF fail = "chain"
    THEN [err |-> "failed to create chain",
          nft |-> [cleared EXCEPT ![f.tableName].exists = TRUE]]
    ELSE [err |-> "nil",
          nft |-> [cleared EXCEPT ![f.tableName] =
                     [exists |-> TRUE, chain |-> f.chainName, rules |-> <<>>]]]

\* strings.Split(portSpec, ",") over lexemes
RECURSIVE SplitComma(_)
SplitComma(s) ==
    LET e == RunEnd(s, 1, {x \in PortSyms \cup {SP, GF} : x # COMMA}) IN
    IF e >= Len(s) THEN <<s>>
    ELSE <<SubSeq(s, 1, e)>> \o SplitComma(SubSeq(s, e + 2, Len(s)))

RECURSIVE JoinWith(_, _)
JoinWith(parts, sep) ==
    IF Len(parts) = 0 THEN <<>>
    ELSE IF Len(parts) = 1 THEN parts[1]
    ELSE parts[1] \o sep \o JoinWith(Tail(parts), sep)

RECURSIVE Flatten(_)
Flatten(ss) == IF ss = <<>> THEN <<>> ELSE Head(ss) \o Flatten(Tail(ss))

\* NftablesFirewall.buildPortSpec
buildPortSpec(ports) ==
    LET allPorts == Flatten([i \in 1..Len(ports) |->
                       LET parts == SplitComma(ports[i]) IN
                       [j \in 1..Len(parts) |-> TrimSpace(parts[j])]])
    IN IF Len(ports) = 0 \/ Len(allPorts) = 0 THEN [err |-> "no ports", spec |-> <<>>]
       ELSE IF Len(allPorts) = 1 THEN [err |-> "nil", spec |-> allPorts[1]]
       ELSE [err |-> "nil",
             spec |-> <<"{", SP>> \o JoinWith(allPorts, <<COMMA, SP>>) \o <<SP, "}">>]

\* NftablesFirewall.AddRule; fail is the injected failure of "nft add rule"
NftAddRule(f, k, rule, fail) ==
    LET portSpec == buildPortSpec(rule.Ports)
        ruleStr == [oifname |-> IF rule.Interface # "" /\ rule.Interface # "any"
                                THEN rule.Interface ELSE "",
                    protocol |-> rule.Protocol,
                    match |-> "dport",
                    dport |-> portSpec.spec,
                    queue |-> rule.QueueNum,
                    comment |-> f.comment]
        t == k[f.tableName]
    IN IF portSpec.err # "nil" THEN [err |-> "failed to build port specification", fw |-> f, nft |-> k]
       ELSE IF fail \/ ~t.exists \/ t.chain # f.chainName
       THEN [err |-> "failed to add rule", fw |-> f, nft |-> k]
       ELSE [err |-> "nil",
             fw |-> [f EXCEPT !.ruleCount = @ + 1],
             nft |-> [k EXCEPT ![f.tableName].rules = Append(@, ruleStr)]]

\* a RemoveAll that deletes the rules bearing the comment and nothing else
NftRemoveRulesOnly(f, k) ==
    [err |-> "nil", fw |-> [f EXCEPT !.ruleCount = 0],
     nft |-> [k EXCEPT ![f.tableName].rules =
                SelectSeq(@, LAMBDA r : r.comment # f.comment)]]

\* NftablesFirewall.RemoveAll: the handles of the rules bearing the comment are
\* deleted, then the chain, then the table; every error is dropped
NftRemoveAll(f, k) ==
    IF ~NftListContains(k, f.tableName) THEN [err |-> "nil", fw |-> f, nft |-> k]
    ELSE LET t == k[f.tableName]
             unmarked == IF t.chain = f.chainName
                         THEN SelectSeq(t.rules, LAMBDA r : r.comment # f.comment)
                         ELSE t.rules
             k1 == [k EXCEPT ![f.tableName].rules = unmarked]
             k2 == [k1 EXCEPT ![f.tableName] = NoTable]
         IN [err |-> "nil", fw |-> [f EXCEPT !.ruleCount = 0], nft |-> k2]

\* buildIptablesPorts
buildIptablesPorts(ports) == JoinWith(ports, <<COMMA>>)

\* IptablesFirewall.Setup; fail is "none" or the family whose NewChain fails with
\* an error other than the tolerated one.  An existing chain and an existing
\* jump are tolerated, as the code's comments say.
IptSetup(f, k, fail) ==
    LET made(c) == [c EXCEPT !.chain = TRUE, !.jump = TRUE] IN
    IF fail = "v4" THEN [err |-> "failed to create chain", ipt |-> k]
    ELSE IF fail = "v6"
    THEN [err |-> "failed to create chain", ipt |-> [k EXCEPT !["v4"] = made(@)]]
    ELSE [err |-> "nil", ipt |-> [x \in Families |-> made(k[x])]]

\* IptablesFirewall.AddRule; fail is "none" or the family whose Append fails
IptAddRule(f, k, rule, fail) ==
    LET spec == [oifname |-> rule.Interface,
                 protocol |-> rule.Protocol,
                 match |-> "--dport",
                 dport |-> buildIptablesPorts(rule.Ports),
                 queue |-> rule.QueueNum,
                 comment |-> ""]
        add(c) == [c EXCEPT !.rules = Append(@, spec)]
    IN IF fail = "v4" \/ ~k["v4"].chain
       THEN [err |-> "failed to add iptables rule", fw |-> f, ipt |-> k]
       ELSE IF fail = "v6" \/ ~k["v6"].chain
       THEN [err |-> "failed to add iptables rule", fw |-> f,
             ipt |-> [k EXCEPT !["v4"] = add(@)]]
       ELSE [err |-> "nil",
             fw |-> [f EXCEPT !.rules = Append(@, spec)],
             ipt |-> [x \in Families |-> add(k[x])]]

\* IptablesFirewall.RemoveAll; fail is "none" or the family whose DeleteChain
\* fails (the flushed chain stays).  ClearChain creates a missing chain, so a
\* missing chain is no error.
IptRemoveAll(f, k, fail) ==
    LET gone(x) == IF fail = x THEN [chain |-> TRUE, jump |-> FALSE, rules |-> <<>>]
                   ELSE NoChain
    IN [err |-> IF fail = "none" THEN "nil" ELSE "cleanup errors",
        fw |-> [f EXCEPT !.rules = <<>>],
        ipt |-> [x \in Families |-> gone(x)]]

(***************************************************************************)
(* Configuration loading                                                   *)
(***************************************************************************)
\* LoadStrategyConfig
LoadStrategyConfig(d) ==
    IF ~d.readable THEN [err |-> "failed to read strategy config file", cfg |-> d.cfg]
    ELSE [err |-> "nil", cfg |-> d.cfg]

\* Config.Validate; fs is the strategy files on disk
Validate(c, fs) ==
    IF c.StrategyFile = "" THEN "strategy_file must be specified"
    ELSE IF c.StrategyFile \notin DOMAIN fs \/ ~fs[c.StrategyFile].exists
    THEN "strategy file not found"
    ELSE IF c.Backend \notin {"nftables", "iptables"} THEN "invalid firewall backend"
    ELSE IF c.Interface = "" /\ c.Interface # "any" THEN "interface must be specified"
    ELSE "nil"

\* the loop "for _, ch := range argsStr" of parseNFQWSArgs and what follows it
RECURSIVE parseArgsFrom(_, _, _, _)
parseArgsFrom(s, args, current, inQuotes) ==
    IF s = <<>> THEN IF current # <<>> THEN Append(args, current) ELSE args
    ELSE LET ch == Head(s) IN
         CASE ch = QUOTE -> parseArgsFrom(Tail(s), args, current, ~inQuotes)
           [] ch = SP -> IF inQuotes
                         THEN parseArgsFrom(Tail(s), args, Append(current, ch), inQuotes)
                         ELSE IF current # <<>>
                         THEN parseArgsFrom(Tail(s), Append(args, current), <<>>, inQuotes)
                         ELSE parseArgsFrom(Tail(s), args, current, inQuotes)
           [] OTHER -> parseArgsFrom(Tail(s), args, Append(current, ch), inQuotes)

\* a tokenizer that takes the string to begin inside a quoted group
parseFromQuoted(argsStr) == parseArgsFrom(argsStr, <<>>, <<>>, TRUE)

\* parseNFQWSArgs: a token is the sequence of its characters
parseNFQWSArgs(argsStr) == parseArgsFrom(argsStr, <<>>, <<>>, FALSE)

\* Runner.convertToFirewallRule with splitPorts
splitPorts(portStr) == <<portStr>>

\* a conversion that hands the configured interface over as it is
convertKeepingInterface(cfg, rule) ==
    [Protocol |-> rule.Protocol,
     Ports |-> splitPorts(rule.Ports),
     QueueNum |-> rule.QueueNum,
     Interface |-> cfg.Interface,
     Comment |-> RuleComment]

convertToFirewallRule(cfg, rule) ==
    [Protocol |-> rule.Protocol,
     Ports |-> splitPorts(rule.Ports),
     QueueNum |-> rule.QueueNum,
     Interface |-> IF cfg.Interface # "any" THEN cfg.Interface ELSE "",
     Comment |-> RuleComment]

\* ProcessManager.Count
Count == Len(processes)

\* a read lock that is granted whoever holds the write lock
RLockAlways == TRUE

\* Runner.GetStatus: the snapshot
Status ==
    [Running |-> running,
     StrategyFile |-> config.StrategyFile,
     ActiveQueues |-> lastParsedLen,
     ActiveProcesses |-> Count,
     FirewallBackend |-> config.Backend]

(***************************************************************************)
(* Tasks                                                                   *)
(***************************************************************************)
\* ProcessManager.StopAll before its loop: i is the child the loop is at, errs
\* the slice of the same name; term, exited, timedOut and kill are the children
\* (by index) that were signalled, that exited within the wait, that did not,
\* and that were killed; args is the ProcessConfig.Args of the last Start and
\* argv the command lines of the children that were spawned
IdleStopAll ==
    [pc |-> "idle", i |-> 0, errs |-> <<>>, term |-> {}, exited |-> {},
     timedOut |-> {}, kill |-> {}, ret |-> "nil", args |-> <<>>, argv |-> <<>>]

\* the goroutines that call into the Runner: a Twirp request handler and the
\* debounce timer of the ConfigWatcher
Tasks == {"rpc", "timer"}
WatcherIds == 1..MaxWatchers

\* a task's locals: pc is its position, op the exported method it called,
\* rules the parsed strategy of Start, i its loop index, failedQs the queues
\* whose spawn failed, cfg the configuration Restart loaded, errs whether Stop
\* collected an error, didStop whether its Stop found the runner running
IdleTask ==
    [pc |-> "idle", op |-> "none", rules |-> <<>>, i |-> 0, failedQs |-> {},
     cfg |-> CfgA, errs |-> FALSE, didStop |-> FALSE,
     via |-> "direct", ret |-> "nil", n |-> 0, at |-> 0]

\* the frame of task t when Start or Restart returns res: a call made by the
\* handler of the Restart RPC returns into the handler, any other is over
Returned(t, res) ==
    IF task[t].via = "rpc"
    THEN [IdleTask EXCEPT !.op = "Restart", !.pc = "reply", !.via = "rpc", !.ret = res]
    ELSE IdleTask

\* a caller invokes Runner.Start, Runner.Stop or Runner.Restart
Call(t, op) ==
    /\ task[t].pc = "idle"
    /\ calls + faults < MaxEvents
    /\ calls' = calls + 1
    /\ task' = [task EXCEPT ![t] = [IdleTask EXCEPT !.op = op,
                                      !.pc = IF op = "Start" THEN "start" ELSE "stop"]]
    /\ UNCHANGED <<runnerVars, kernelVars, watchers, faults, lastDone, parseVars, sideVars>>

\* a caller takes the GetStatus snapshot of the runner at rest and calls Start
ObservedStart(t) ==
    /\ task[t].pc = "idle"
    /\ \A u \in Tasks : task[u].pc = "idle"
    /\ calls + faults < MaxEvents
    /\ before' = Status
    /\ calls' = calls + 1
    /\ task' = [task EXCEPT ![t] = [IdleTask EXCEPT !.op = "Start", !.pc = "start"]]
    /\ UNCHANGED <<runnerVars, kernelVars, watchers, faults, lastDone, parseVars,
                   diskVars, watchVars, serverVars, gPorts, argVars, snap, pmVars>>

\* Start returns res to its caller (and with it Restart, whose last call it is)
StartReturns(t, res) ==
    /\ task' = [task EXCEPT ![t] = Returned(t, res)]
    /\ lastDone' = [kind |-> "Start", res |-> res,
                    acted |-> res # "strategy runner already running"]

\* Stop returns res: to the caller, or into Restart, which only logs it
StopReturns(t, res, stopped) ==
    /\ lastDone' = [kind |-> "Stop", res |-> res, acted |-> stopped]
    /\ task' = [task EXCEPT ![t] =
                   IF task[t].op = "Restart"
                   THEN [IdleTask EXCEPT !.op = "Restart", !.pc = "load",
                                         !.didStop = stopped, !.via = task[t].via]
                   ELSE IdleTask]

\* an injected subsystem failure counts against the budget of the run
Inject(failed) ==
    /\ failed => calls + faults < MaxEvents
    /\ faults' = IF failed THEN faults + 1 ELSE faults

(***************************************************************************)
(* Runner.Start                                                            *)
(***************************************************************************)
\* a Start that does not look at running
NeverRunning == FALSE

\* the check "if r.running" of Start
AlreadyRunning == running

\* a Start that gives up only when the strategy file cannot be opened
ParseFailedOnlyOpen(strategy) == strategy.err = "open"

\* the check "if err != nil" after r.parser.Parse
ParseFailed(strategy) == strategy.err # "nil"

\* lock, the running check and step 1 (parse)
StartBegin(t) ==
    /\ task[t].pc = "start"
    /\ mu = "none"
    /\ IF AlreadyRunning
       THEN /\ StartReturns(t, "strategy runner already running")
            /\ UNCHANGED <<runnerVars>>
       ELSE LET strategy == Parse(parser, files[config.StrategyFile])
            IN IF ParseFailed(strategy)
               THEN /\ StartReturns(t, "parse failed")
                    /\ UNCHANGED <<runnerVars>>
               ELSE /\ lastParsedLen' = Len(strategy.Rules)
                    /\ mu' = t
                    /\ task' = [task EXCEPT ![t].pc = "setup",
                                            ![t].rules = strategy.Rules]
                    /\ UNCHANGED <<running, config, parser, fw, processes, watcher,
                                   watch, lastDone>>
    /\ UNCHANGED <<kernelVars, watchers, faults, calls, parseVars, sideVars>>

\* r.fw.Setup on the configured back-end
FwSetup(f, fail) ==
    IF f.Backend = "nftables"
    THEN [err |-> NftSetup(f, nft, fail).err, nft |-> NftSetup(f, nft, fail).nft, ipt |-> ipt]
    ELSE [err |-> IptSetup(f, ipt, fail).err, nft |-> nft, ipt |-> IptSetup(f, ipt, fail).ipt]

\* step 2: r.fw.Setup
StartSetup(t, fail) ==
    /\ task[t].pc = "setup"
    /\ IF fw.Backend = "nftables" THEN fail \in {"none", "table", "chain"}
                                   ELSE fail \in {"none", "v4", "v6"}
    /\ Inject(fail # "none")
    /\ LET r == FwSetup(fw, fail)
       IN /\ nft' = r.nft
          /\ ipt' = r.ipt
          /\ IF r.err # "nil"
             THEN /\ StartReturns(t, "firewall setup failed")
                  /\ mu' = "none"
             ELSE /\ task' = [task EXCEPT ![t].pc = "add", ![t].i = 1]
                  /\ UNCHANGED <<mu, lastDone>>
    /\ UNCHANGED <<running, config, parser, fw, processes, watcher, lastParsedLen,
                   watch, watchers, calls, parseVars, sideVars>>

\* an AddRule that reports success and installs nothing
FwSkipRule(f, fwRule, fail) == [err |-> "nil", fw |-> f, nft |-> nft, ipt |-> ipt]

\* r.fw.AddRule on the configured back-end
FwAddRule(f, fwRule, fail) ==
    IF f.Backend = "nftables"
    THEN LET x == NftAddRule(f, nft, fwRule, fail # "none")
         IN [err |-> x.err, fw |-> x.fw, nft |-> x.nft, ipt |-> ipt]
    ELSE LET x == IptAddRule(f, ipt, fwRule, fail)
         IN [err |-> x.err, fw |-> x.fw, nft |-> nft, ipt |-> x.ipt]

\* step 3: one iteration of the add-rule loop; no unwinding on failure
StartAddRule(t, fail) ==
    /\ task[t].pc = "add"
    /\ IF fw.Backend = "nftables" THEN fail \in {"none", "rule"}
                                   ELSE fail \in {"none", "v4", "v6"}
    /\ Inject(fail # "none")
    /\ LET r == FwAddRule(fw, convertToFirewallRule(config, task[t].rules[task[t].i]), fail)
           last == task[t].i = Len(task[t].rules)
       IN /\ fw' = r.fw
          /\ nft' = r.nft
          /\ ipt' = r.ipt
          /\ IF r.err # "nil"
             THEN /\ StartReturns(t, "add rule failed")
                  /\ mu' = "none"
             ELSE /\ task' = [task EXCEPT ![t].pc = IF last THEN "spawn" ELSE "add",
                                          ![t].i = IF last THEN 1 ELSE @ + 1]
                  /\ UNCHANGED <<mu, lastDone>>
    /\ UNCHANGED <<running, config, parser, processes, watcher, lastParsedLen,
                   watch, watchers, calls, parseVars, sideVars>>

\* a process manager that loses the children it tracks when a spawn fails
PMStartAbandon(procs, queueNum, fail) ==
    IF fail THEN [err |-> "failed to start nfqws", processes |-> <<>>]
    ELSE [err |-> "nil", processes |-> Append(procs, queueNum)]

\* ProcessManager.Start: the child is tracked unless cmd.Start fails
PMStart(procs, queueNum, fail) ==
    IF fail THEN [err |-> "failed to start nfqws", processes |-> procs]
    ELSE [err |-> "nil", processes |-> Append(procs, queueNum)]

\* step 4: one iteration of the spawn loop; a failure is logged and tolerated
StartSpawn(t, fail) ==
    /\ task[t].pc = "spawn"
    /\ Inject(fail)
    /\ LET rule == task[t].rules[task[t].i]
           r == PMStart(processes, rule.QueueNum, fail)
           last == task[t].i = Len(task[t].rules)
       IN /\ processes' = r.processes
          /\ task' = [task EXCEPT
                ![t].pc = IF last THEN "finish" ELSE "spawn",
                ![t].i = @ + 1,
                ![t].failedQs = IF r.err # "nil" THEN @ \cup {rule.QueueNum} ELSE @]
    /\ UNCHANGED <<running, config, parser, fw, watcher, lastParsedLen, mu, watch,
                   kernelVars, watchers, lastDone, calls, parseVars, sideVars>>

FreeWatcherId == CHOOSE w \in WatcherIds : watchers[w] = "free"

\* steps 5 and 6: the watcher (a failure to create it is tolerated), running = true
StartFinish(t, fail) ==
    /\ task[t].pc = "finish"
    /\ fail => watch
    /\ Inject(fail)
    /\ IF watch /\ ~fail
       THEN /\ \E w \in WatcherIds : watchers[w] = "free"
            /\ watcher' = FreeWatcherId
            /\ watchers' = [watchers EXCEPT ![FreeWatcherId] = "armed"]
       ELSE UNCHANGED <<watcher, watchers>>
    /\ running' = TRUE
    /\ mu' = "none"
    /\ StartReturns(t, "nil")
    /\ UNCHANGED <<config, parser, fw, processes, lastParsedLen, watch,
                   kernelVars, calls, parseVars, sideVars>>

(***************************************************************************)
(* Runner.Stop                                                             *)
(***************************************************************************)
\* a Stop that never takes the early return
StopAlways == FALSE

\* the check "if !r.running" of Stop
NotRunning == ~running

\* a ConfigWatcher.Stop that waits for the callback to return: it cannot
\* return to the goroutine of the callback itself
StopJoinsCallback(t) == t = "timer"

\* ConfigWatcher.Stop closes stopCh and the fsnotify watcher; it waits neither
\* for the loop goroutine nor for the timer goroutine the callback runs on, so
\* it returns to whichever goroutine t called it
WatcherStopBlocks(t) == FALSE

\* lock, the running check and step 1 (stop and drop the watcher)
StopBegin(t, fail) ==
    /\ task[t].pc = "stop"
    /\ mu = "none"
    /\ running /\ watcher # 0 => ~WatcherStopBlocks(t)
    /\ fail => running /\ watcher # 0
    /\ Inject(fail)
    /\ IF NotRunning
       THEN /\ StopReturns(t, "nil", FALSE)
            /\ UNCHANGED <<runnerVars, watchers>>
       ELSE /\ mu' = t
            /\ watcher' = 0
            /\ watchers' = IF watcher # 0 THEN [watchers EXCEPT ![watcher] = "free"]
                           ELSE watchers
            /\ task' = [task EXCEPT ![t].pc = "stopProcs", ![t].errs = fail]
            /\ UNCHANGED <<running, config, parser, fw, processes, lastParsedLen,
                           watch, lastDone>>
    /\ UNCHANGED <<kernelVars, calls, parseVars, sideVars>>

\* a StopAll that returns at once and leaves the children running
PMStopNone(procs, fail) == [err |-> "nil", processes |-> procs]

\* ProcessManager.StopAll: every child is attempted, the list is cleared
PMStopAll(procs, fail) ==
    [err |-> IF fail THEN "process cleanup errors" ELSE "nil", processes |-> <<>>]

\* step 2: r.procManager.StopAll
StopProcs(t, fail) ==
    /\ task[t].pc = "stopProcs"
    /\ fail => processes # <<>>
    /\ Inject(fail)
    /\ LET r == PMStopAll(processes, fail)
       IN /\ processes' = r.processes
          /\ task' = [task EXCEPT ![t].pc = "stopFw",
                                  ![t].errs = @ \/ r.err # "nil"]
    /\ UNCHANGED <<running, config, parser, fw, watcher, lastParsedLen, mu, watch,
                   kernelVars, watchers, lastDone, calls, parseVars, sideVars>>

\* r.fw.RemoveAll on the configured back-end
FwRemoveAll(f, fail) ==
    IF f.Backend = "nftables"
    THEN LET x == NftRemoveAll(f, nft)
         IN [err |-> x.err, fw |-> x.fw, nft |-> x.nft, ipt |-> ipt]
    ELSE LET x == IptRemoveAll(f, ipt, fail)
         IN [err |-> x.err, fw |-> x.fw, nft |-> nft, ipt |-> x.ipt]

\* a Stop that leaves the runner running when a subsystem reported an error
StopRunningUnlessErrors(errs) == errs

\* the value Stop leaves in r.running
StopRunning(errs) == FALSE

\* steps 3 and 4: r.fw.RemoveAll, running = false, the aggregated error
StopFinish(t, fail) ==
    /\ task[t].pc = "stopFw"
    /\ IF fw.Backend = "nftables" THEN fail = "none"
                                   ELSE fail \in {"none", "v4", "v6"}
    /\ Inject(fail # "none")
    /\ LET r == FwRemoveAll(fw, fail)
           errs == task[t].errs \/ r.err # "nil"
       IN /\ fw' = r.fw
          /\ nft' = r.nft
          /\ ipt' = r.ipt
          /\ running' = StopRunning(errs)
          /\ mu' = "none"
          /\ StopReturns(t, IF errs THEN "stop errors" ELSE "nil", TRUE)
    /\ UNCHANGED <<config, parser, processes, watcher, lastParsedLen, watch,
                   watchers, calls, parseVars, sideVars>>

(***************************************************************************)
(* Runner.Restart: Stop, then the steps below, then Start                  *)
(***************************************************************************)
\* LoadStrategyConfig and Validate, outside the lock; d is the strategy-runner
\* YAML as the operator left it at mainCfg.ConfigPath.  Restart returns the error.
RestartLoad(t, d) ==
    /\ task[t].pc = "load"
    /\ LET l == LoadStrategyConfig(d)
           v == Validate(l.cfg, files)
       IN IF l.err # "nil" \/ v # "nil"
          THEN task' = [task EXCEPT ![t] = Returned(t, IF l.err # "nil" THEN l.err ELSE v)]
          ELSE task' = [task EXCEPT ![t].pc = "swapCfg", ![t].cfg = l.cfg]
    /\ UNCHANGED <<runnerVars, kernelVars, watchers, faults, lastDone, calls, parseVars, sideVars>>

\* r.mu.Lock(); r.config = cfg; r.mu.Unlock()
RestartSwapConfig(t) ==
    /\ task[t].pc = "swapCfg"
    /\ mu = "none"
    /\ config' = task[t].cfg
    /\ task' = [task EXCEPT ![t].pc = "swapFw"]
    /\ UNCHANGED <<running, parser, fw, processes, watcher, lastParsedLen, mu, watch,
                   kernelVars, watchers, faults, lastDone, calls, parseVars, sideVars>>

\* firewall.NewFirewall, then r.mu.Lock(); r.fw = fw; r.mu.Unlock()
RestartSwapFirewall(t) ==
    /\ task[t].pc = "swapFw"
    /\ mu = "none"
    /\ fw' = NewFirewall(task[t].cfg)
    /\ task' = [task EXCEPT ![t].pc = "start"]
    /\ UNCHANGED <<running, config, parser, processes, watcher, lastParsedLen, mu, watch,
                   kernelVars, watchers, faults, lastDone, calls, parseVars, sideVars>>

(***************************************************************************)
(* The parser run on its own: one line of a strategy file per step         *)
(***************************************************************************)
\* the fragments a strategy line is made of: a group with nfqws arguments
\* closed by --new, a group whose ports depend on %GameFilter%, a group with
\* no arguments closed by --new, a group of %GameFilter% ports only, a comment
\* mark and a filter with neither arguments nor --new
Segments ==
    { <<FT, "443", SP, ArgFake, SP, NewMark, SP>>,
      <<FU, "443", COMMA, GF, SP, ArgSplit>>,
      <<FT, "443", SP, NewMark, SP>>,
      <<FU, GF, SP, ArgFake, SP>>,
      <<CommentMark>>,
      <<FT, "80", SP>> }

\* the file grows by one segment of the current line
AddSegment(s) ==
    /\ pSegs < MaxSegs
    /\ pSegs' = pSegs + 1
    /\ pLine' = Append(pLine, s)
    /\ UNCHANGED <<runnerVars, kernelVars, watchers, task, faults, lastDone,
                   calls, pst, pGameFilter, pSkipAt, sideVars>>

\* the rules the matches ms emit before the first of them that is skipped for
\* empty arguments, -1 when none is skipped
RECURSIVE EmittedBeforeSkip(_)
EmittedBeforeSkip(ms) ==
    IF ms = <<>> THEN -1
    ELSE IF TrimSpace(Head(ms).args) = <<>> THEN 0
    ELSE LET r == EmittedBeforeSkip(Tail(ms)) IN IF r = -1 THEN -1 ELSE r + 1

\* one iteration of the scanner loop of Parser.Parse: the line ends here
ScanLine ==
    /\ pLine # <<>>
    /\ LET p == NewParser(DefaultGameFilterPorts, pGameFilter)
           line == Flatten(pLine)
           skip == IF isSkipLine(line) THEN -1
                   ELSE EmittedBeforeSkip(FindAll(substituteVariables(p, line), 1))
       IN /\ pst' = ParseLine(p, pst, line)
          /\ pSkipAt' = IF pSkipAt = -1 /\ skip # -1
                         THEN Len(pst.rules) + skip ELSE pSkipAt
    /\ pLine' = <<>>
    /\ UNCHANGED <<runnerVars, kernelVars, watchers, task, faults, lastDone,
                   calls, pGameFilter, pSegs, sideVars>>

(***************************************************************************)
(* ConfigWatcher: the event loop of Start, the debounce timers and Stop    *)
(***************************************************************************)
\* fsnotify.Op is a bit set; the values an event of the watched path carries
FsOps == {{"Write"}, {"Create"}, {"Remove"}, {"Rename"}, {"Chmod"}, {"Write", "Chmod"}}

\* a loop that arms the timer on every event
IsAnyOp(op) == op # {}

\* event.Op&fsnotify.Write == fsnotify.Write
IsWrite(op) == "Write" \in op

\* a loop that leaves the pending timer running
KeepPending(timers) == timers

\* "if debounceTimer != nil { debounceTimer.Stop() }": no timer stays pending
CancelPending(timers) == {}

\* what ConfigWatcher.Stop leaves of the pending timers: it closes stopCh and
\* the fsnotify watcher and does not touch debounceTimer
TimersAfterStop(timers) == timers

\* the loop handles one event of the watched path.  While it runs it receives
\* the event from cw.watcher.Events; after Stop the loop has returned and the
\* fsnotify watcher is closed, so the event reaches nobody.  wWrites counts the
\* Write events delivered, wSince the ticks since the last of them (capped at
\* the window) and wBurst the callbacks run since the burst in progress began.
Receive(op) ==
    /\ wEvents' = wEvents + 1
    /\ IF wState = "watching"
       THEN /\ wWrites' = IF "Write" \in op THEN wWrites + 1 ELSE wWrites
            /\ wSince' = IF "Write" \in op THEN 0 ELSE wSince
            /\ wBurst' = IF "Write" \in op /\ wSince >= DebounceTicks THEN 0 ELSE wBurst
            /\ wTimers' = IF IsWrite(op)
                          THEN CancelPending(wTimers) \cup {DebounceTicks}
                          ELSE wTimers
       ELSE UNCHANGED <<wWrites, wTimers, wSince, wBurst>>
    /\ UNCHANGED <<wState, wFired>>

\* one event happens on the watched path
WatchEvent(op) ==
    /\ wEvents < MaxFsEvents
    /\ Receive(op)
    /\ UNCHANGED <<runnerVars, kernelVars, watchers, task, faults, calls, lastDone,
                   parseVars, diskVars, serverVars, gPorts,
                   argVars, snap, pmVars, before>>

\* the clock advances one tick; a timer whose window has elapsed runs its
\* function, which invokes cw.onChange
Elapse ==
    /\ \/ wTimers # {}
       \/ wSince < DebounceTicks
       \/ overwritten >= 0 /\ overwritten < DebounceTicks
    /\ LET due == wTimers \cap {1}
       IN /\ wTimers' = {d - 1 : d \in wTimers \ due}
          /\ wFired' = wFired + Cardinality(due)
          /\ wBurst' = wBurst + Cardinality(due)
    /\ wSince' = IF wSince < DebounceTicks THEN wSince + 1 ELSE wSince
    /\ overwritten' = IF overwritten >= 0 /\ overwritten < DebounceTicks
                      THEN overwritten + 1 ELSE overwritten
    /\ UNCHANGED <<wState, wEvents, wWrites>>

\* a tick of the clock for a watcher whose callback does nothing
Tick ==
    /\ Elapse
    /\ UNCHANGED <<runnerVars, kernelVars, watchers, task, faults, calls, lastDone,
                   parseVars, files, serverVars, gPorts,
                   argVars, snap, pmVars, before>>

\* ConfigWatcher.Stop: close(cw.stopCh), cw.watcher.Close(); the loop returns
WatchStop ==
    /\ wState = "watching"
    /\ wState' = "stopped"
    /\ wTimers' = TimersAfterStop(wTimers)
    /\ UNCHANGED <<wSince, wBurst, wEvents, wWrites, wFired>>
    /\ UNCHANGED <<runnerVars, kernelVars, watchers, task, faults, calls, lastDone,
                   parseVars, diskVars, serverVars, gPorts,
                   argVars, snap, pmVars, before>>

(***************************************************************************)
(* Hot reload: the watcher of Runner.Start and what is written on disk     *)
(***************************************************************************)
\* mainCfg.ConfigPath: where the strategy-runner YAML lies
ConfigPath == "strategy.yaml"

\* the path Start hands to NewConfigWatcher, which gives it to watcher.Add
WatchedPath(cfg) == ConfigPath

\* the one-rule configuration the runner is built from, and its YAML on disk
CfgReload == CfgC

\* a process overwrites the file at path: the running strategy file gets a valid
\* two-rule strategy once the runner has started on the one-rule strategy, the
\* YAML is rewritten with the content it has, at most MaxFsEvents times and
\* never while the timer of an earlier rewrite is pending.  fsnotify reports
\* the Write to the watcher of the runner when it watches that path.
PathWritten(path) ==
    /\ IF path = config.StrategyFile
       THEN /\ running /\ lastParsedLen = 1 /\ overwritten = -1
            /\ \A t \in Tasks : task[t].pc = "idle"
            /\ files' = [files EXCEPT ![path] = FileGeneral]
            /\ overwritten' = 0
       ELSE /\ wEvents < MaxFsEvents /\ wTimers = {}
            /\ UNCHANGED diskVars
    /\ IF watcher # 0 /\ path = WatchedPath(config)
       THEN Receive({"Write"})
       ELSE UNCHANGED watchVars
    /\ UNCHANGED <<runnerVars, kernelVars, watchers, task, faults, calls, lastDone,
                   parseVars, serverVars, gPorts,
                   argVars, snap, pmVars, before>>

\* a tick of the clock; the callback Start gave the watcher calls r.Restart
ReloadTick ==
    /\ Elapse
    /\ IF wFired' > wFired
       THEN /\ task["timer"].pc = "idle"
            /\ calls' = calls + 1
            /\ task' = [task EXCEPT !["timer"] =
                           [IdleTask EXCEPT !.op = "Restart", !.pc = "stop"]]
       ELSE UNCHANGED <<task, calls>>
    /\ UNCHANGED <<runnerVars, kernelVars, watchers, faults, lastDone,
                   parseVars, files, serverVars, gPorts,
                   argVars, snap, pmVars, before>>

(***************************************************************************)
(* The control plane: Server.Restart over the Runner                       *)
(***************************************************************************)
\* the requests a caller may hand to Server.Restart: nil, or a RestartRequest
Requests == {"nil", "force", "noforce"}

\* reading req.Force: a nil pointer makes the goroutine panic
ReadForce(req) == IF req = "nil" THEN "panic" ELSE "ok"

\* time.Time.Format(time.RFC3339) of a clock value in whole seconds
FormatRFC3339(t) == [layout |-> "RFC3339", seconds |-> t]

\* what rpc holds for a goroutine that has handled no Restart RPC
NoReply == [req |-> "none", code |-> "none", words |-> <<>>, number |-> 0,
            restartedAt |-> FormatRFC3339(0)]

\* NewServer
InitServer ==
    /\ serving = FALSE
    /\ restartCount = 0
    /\ startTime = 0
    /\ now = 0
    /\ rpc = [t \in Tasks |-> NoReply]

\* NewTwirpServer returns the handler once the Start it calls returned nil
Serve ==
    /\ ~serving
    /\ calls = 1
    /\ \A t \in Tasks : task[t].pc = "idle"
    /\ lastDone = [kind |-> "Start", res |-> "nil", acted |-> TRUE]
    /\ serving' = TRUE
    /\ UNCHANGED <<runnerVars, kernelVars, watchers, task, faults, calls, lastDone,
                   parseVars, diskVars, watchVars, restartCount, startTime, now, rpc, gPorts,
                   argVars, snap, pmVars, before>>

\* the wall clock advances by a second
ClockTick ==
    /\ serving
    /\ now < MaxClock
    /\ now' = now + 1
    /\ UNCHANGED <<runnerVars, kernelVars, watchers, task, faults, calls, lastDone,
                   parseVars, diskVars, watchVars, serving, restartCount, startTime, rpc, gPorts,
                   argVars, snap, pmVars, before>>

\* Server.Restart up to the call of s.strategyRunner.Restart: the log line that
\* reads req.Force, then the nil check
RpcRestart(t, req) ==
    /\ serving
    /\ task[t].pc = "idle"
    /\ calls + faults < MaxEvents
    /\ calls' = calls + 1
    /\ IF ReadForce(req) = "panic"
       THEN /\ rpc' = [rpc EXCEPT ![t] = [NoReply EXCEPT !.req = req, !.code = "panic"]]
            /\ UNCHANGED task
       ELSE IF req = "nil"
       THEN /\ rpc' = [rpc EXCEPT ![t] = [NoReply EXCEPT !.req = req,
                                                         !.code = "invalid_argument"]]
            /\ UNCHANGED task
       ELSE /\ rpc' = [rpc EXCEPT ![t] = [NoReply EXCEPT !.req = req]]
            /\ task' = [task EXCEPT ![t] =
                           [IdleTask EXCEPT !.op = "Restart", !.pc = "stop", !.via = "rpc"]]
    /\ UNCHANGED <<runnerVars, kernelVars, watchers, faults, lastDone, parseVars,
                   diskVars, watchVars, serving, restartCount, startTime, now, gPorts,
                   argVars, snap, pmVars, before>>

\* s.strategyRunner.Restart has returned: the error goes out as an internal
\* error; else restartedAt := time.Now() and s.restartCount is read
RpcTrack(t) ==
    /\ task[t].pc = "reply"
    /\ IF task[t].ret # "nil"
       THEN /\ rpc' = [rpc EXCEPT ![t].code = "internal"]
            /\ task' = [task EXCEPT ![t] = IdleTask]
       ELSE /\ task' = [task EXCEPT ![t].pc = "incr", ![t].n = restartCount, ![t].at = now]
            /\ UNCHANGED rpc
    /\ UNCHANGED <<runnerVars, kernelVars, watchers, faults, calls, lastDone, parseVars,
                   diskVars, watchVars, serving, restartCount, startTime, now, gPorts,
                   argVars, snap, pmVars, before>>

\* the write of s.restartCount++, s.startTime = restartedAt and the reply
RpcReply(t) ==
    /\ task[t].pc = "incr"
    /\ restartCount' = task[t].n + 1
    /\ startTime' = task[t].at
    /\ rpc' = [rpc EXCEPT ![t].code = "ok",
                          ![t].words = <<"strategy runner", "restarted", "successfully">>,
                          ![t].number = task[t].n + 1,
                          ![t].restartedAt = FormatRFC3339(task[t].at)]
    /\ task' = [task EXCEPT ![t] = IdleTask]
    /\ UNCHANGED <<runnerVars, kernelVars, watchers, faults, calls, lastDone, parseVars,
                   diskVars, watchVars, serving, now, gPorts,
                   argVars, snap, pmVars, before>>

(***************************************************************************)
(* Rule generation for one port specification                              *)
(***************************************************************************)
\* the elements a port specification is made of: a port or a range A-B
PortElems == {<<"80">>, <<"443">>, <<"1024", DASH, "65535">>}

\* the comma-separated elements of the port specification s
ElemsOf(s) == IF s = <<>> THEN <<>> ELSE SplitComma(s)

\* the strategy names one more element in the port list of its filter
GenAddPort(e) ==
    /\ nft = [n \in TableNames |-> NoTable]
    /\ ipt = [x \in Families |-> NoChain]
    /\ Len(ElemsOf(gPorts)) < MaxPorts
    /\ gPorts' = IF gPorts = <<>> THEN e ELSE gPorts \o <<COMMA>> \o e
    /\ UNCHANGED <<runnerVars, kernelVars, watchers, task, faults, calls, lastDone,
                   parseVars, diskVars, watchVars, serverVars,
                   argVars, snap, pmVars, before>>

\* Setup and AddRule of the configured back-end for the rule that
\* convertToFirewallRule makes of the parsed rule, as steps 2 and 3 of Start do
GenRule ==
    /\ gPorts # <<>>
    /\ nft = [n \in TableNames |-> NoTable]
    /\ ipt = [x \in Families |-> NoChain]
    /\ LET rule == convertToFirewallRule(config,
                     [Protocol |-> "tcp", Ports |-> gPorts, QueueNum |-> 0])
       IN IF fw.Backend = "nftables"
          THEN LET r == NftAddRule(fw, NftSetup(fw, nft, "none").nft, rule, FALSE)
               IN fw' = r.fw /\ nft' = r.nft /\ UNCHANGED ipt
          ELSE LET r == IptAddRule(fw, IptSetup(fw, ipt, "none").ipt, rule, "none")
               IN fw' = r.fw /\ ipt' = r.ipt /\ UNCHANGED nft
    /\ UNCHANGED <<running, config, parser, processes, watcher, lastParsedLen, mu, watch,
                   watchers, task, faults, calls, lastDone,
                   parseVars, diskVars, watchVars, serverVars, gPorts,
                   argVars, snap, pmVars, before>>

(***************************************************************************)
(* One firewall instance called directly: Setup, AddRule, RemoveAll        *)
(***************************************************************************)
\* the rules the kernel holds in the table or chain of the instance
InstalledRules ==
    IF fw.Backend = "nftables" THEN nft[fw.tableName].rules ELSE ipt["v4"].rules

\* Firewall.Setup of the instance; it may fail half way
FirewallSetup(fail) ==
    /\ calls + faults < MaxEvents
    /\ calls' = calls + 1
    /\ IF fw.Backend = "nftables" THEN fail \in {"none", "table", "chain"}
                                   ELSE fail \in {"none", "v4", "v6"}
    /\ Inject(fail # "none")
    /\ LET r == FwSetup(fw, fail)
       IN /\ nft' = r.nft
          /\ ipt' = r.ipt
          /\ lastDone' = [kind |-> "Setup", res |-> r.err, acted |-> FALSE]
    /\ UNCHANGED <<runnerVars, watchers, task, parseVars, sideVars>>

\* Firewall.AddRule for a rule with the ports e and the next queue number
FirewallAddRule(e) ==
    /\ calls + faults < MaxEvents
    /\ calls' = calls + 1
    /\ LET rule == convertToFirewallRule(config,
                     [Protocol |-> "tcp", Ports |-> e, QueueNum |-> Len(InstalledRules)])
           r == FwAddRule(fw, rule, "none")
       IN /\ fw' = r.fw
          /\ nft' = r.nft
          /\ ipt' = r.ipt
          /\ lastDone' = [kind |-> "AddRule", res |-> r.err, acted |-> r.err = "nil"]
    /\ UNCHANGED <<running, config, parser, processes, watcher, lastParsedLen, mu, watch,
                   watchers, task, faults, parseVars, sideVars>>

\* Firewall.RemoveAll; acted records whether rules were installed before it
FirewallRemoveAll ==
    /\ calls + faults < MaxEvents
    /\ calls' = calls + 1
    /\ LET r == FwRemoveAll(fw, "none")
       IN /\ fw' = r.fw
          /\ nft' = r.nft
          /\ ipt' = r.ipt
          /\ lastDone' = [kind |-> "RemoveAll", res |-> r.err, acted |-> InstalledRules # <<>>]
    /\ UNCHANGED <<running, config, parser, processes, watcher, lastParsedLen, mu, watch,
                   watchers, task, faults, parseVars, sideVars>>

(***************************************************************************)
(* The parser on one filter group with a given port list                   *)
(***************************************************************************)
\* the strategy names one more element in the port list of its filter: a
\* port, a range or the %GameFilter% token
SubstAddPort(e) ==
    /\ pLine = <<>>
    /\ Len(ElemsOf(gPorts)) < MaxPorts
    /\ gPorts' = IF gPorts = <<>> THEN e ELSE gPorts \o <<COMMA>> \o e
    /\ UNCHANGED <<runnerVars, kernelVars, watchers, task, faults, calls, lastDone,
                   parseVars, diskVars, watchVars, serverVars,
                   argVars, snap, pmVars, before>>

\* one iteration of the scanner loop of Parser.Parse on the line
\* "--filter-tcp=<port list> <argument>"; pLine keeps the line that was read
SubstScan ==
    /\ pLine = <<>>
    /\ gPorts # <<>>
    /\ LET p == NewParser(DefaultGameFilterPorts, pGameFilter)
           line == <<FT>> \o gPorts \o <<SP, ArgFake>>
       IN /\ pst' = ParseLine(p, pst, line)
          /\ pLine' = <<line>>
    /\ UNCHANGED <<runnerVars, kernelVars, watchers, task, faults, lastDone,
                   calls, pGameFilter, pSegs, pSkipAt, sideVars>>

(***************************************************************************)
(* The parser on one line of several groups                                *)
(***************************************************************************)
\* what a line of groups is written from: the fragments of Segments, a --new
\* on its own and one more nfqws argument
GroupSegments == Segments \cup { <<NewMark, SP>>, <<ArgPlain, SP>> }

\* what a file of several physical lines is written from: the fragments of a
\* line and the end of a physical line that closes with ^
LineSegments == GroupSegments \cup { <<CARET, NL>> }

\* bufio.Scanner with the default split function: the text between line ends
RECURSIVE SplitLines(_)
SplitLines(text) ==
    IF \A i \in 1..Len(text) : text[i] # NL THEN <<text>>
    ELSE LET n == CHOOSE i \in 1..Len(text) :
                     text[i] = NL /\ \A j \in 1..(i - 1) : text[j] # NL
         IN <<SubSeq(text, 1, n - 1)>> \o SplitLines(SubSeq(text, n + 1, Len(text)))

\* the line grows by one fragment; it has not been read yet
GroupAdd(s) ==
    /\ lastDone.kind # "Scan"
    /\ pSegs < MaxSegs
    /\ pSegs' = pSegs + 1
    /\ pLine' = Append(pLine, s)
    /\ UNCHANGED <<runnerVars, kernelVars, watchers, task, faults, lastDone,
                   calls, pst, pGameFilter, pSkipAt, sideVars>>

\* the scanner loop of Parser.Parse on the text written, one iteration for
\* each physical line; pLine keeps the text that was read
GroupScan ==
    /\ lastDone.kind # "Scan"
    /\ pLine # <<>>
    /\ pst' = ParseLines(NewParser(DefaultGameFilterPorts, pGameFilter), pst,
                         SplitLines(Flatten(pLine)))
    /\ lastDone' = [kind |-> "Scan", res |-> "nil", acted |-> TRUE]
    /\ UNCHANGED <<runnerVars, kernelVars, watchers, task, faults, calls,
                   pGameFilter, pSegs, pLine, pSkipAt, sideVars>>

(***************************************************************************)
(* Tokenization of the arguments of a worker                               *)
(***************************************************************************)
\* the characters an argument string is written from
ArgChars == {"a", SP, TAB, QUOTE}

\* the argument string of a rule grows by one character
ArgType(ch) ==
    /\ lastDone.kind # "Args"
    /\ Len(aStr) < MaxArgLen
    /\ aStr' = Append(aStr, ch)
    /\ UNCHANGED <<runnerVars, kernelVars, watchers, task, faults, calls, lastDone,
                   parseVars, diskVars, watchVars, serverVars, gPorts, aToks,
                   snap, pmVars, before>>

\* Runner.Start builds the ProcessConfig of the rule: Args: parseNFQWSArgs(...)
ArgParse ==
    /\ lastDone.kind # "Args"
    /\ aToks' = parseNFQWSArgs(aStr)
    /\ lastDone' = [kind |-> "Args", res |-> "nil", acted |-> TRUE]
    /\ UNCHANGED <<runnerVars, kernelVars, watchers, task, faults, calls,
                   parseVars, diskVars, watchVars, serverVars, gPorts, aStr,
                   snap, pmVars, before>>

(***************************************************************************)
(* Runner.GetStatus, called by a request handler of its own                *)
(***************************************************************************)
\* r.mu.RLock() returns: no goroutine holds the write lock
RLockFree == mu = "none"

\* Runner.GetStatus: RLock, the five reads, RUnlock
GetStatus ==
    /\ RLockFree
    /\ snap' = [taken |-> TRUE, status |-> Status,
                during |-> {task[t].pc : t \in Tasks}]
    /\ UNCHANGED <<runnerVars, kernelVars, watchers, task, faults, calls, lastDone,
                   parseVars, diskVars, watchVars, serverVars, gPorts, argVars,
                   pmVars, before>>

(***************************************************************************)
(* ProcessManager.StopAll, child by child                                  *)
(***************************************************************************)
\* a loop that gives up at the first child it cannot signal
AbortOnSignalError(fail) == IF fail THEN "return" ELSE "wait"

\* where the loop goes after proc.Signal(SIGTERM): the error is appended and
\* the wait follows in either case
AfterSignal(fail) == "wait"

\* the next child of the range loop, or the end of the loop
NextChild(i) == IF i < Len(processes) THEN [pc |-> "signal", i |-> i + 1]
                ELSE [pc |-> "return", i |-> i]

\* the ProcessConfig.Args a caller of ProcessManager.Start hands over
CallerArgs == {<<>>, <<ArgFake>>, <<ArgSplit, ArgPlain>>}

\* the argument vector of exec.Command in ProcessManager.Start
CommandArgs(queueNum, args) ==
    <<"--daemon", "--qnum=" \o ToString(queueNum)>> \o args

\* ProcessManager.Start for the next queue, before any StopAll; sa.i counts
\* the calls
TrackChild(fail, args) ==
    /\ sa.pc = "idle"
    /\ lastDone.kind # "StopAll"
    /\ sa.i < MaxChildren
    /\ LET r == PMStart(processes, sa.i, fail)
       IN /\ processes' = r.processes
          /\ lastDone' = [kind |-> "PMStart", res |-> r.err, acted |-> r.err = "nil"]
          /\ sa' = [sa EXCEPT !.i = @ + 1,
                              !.args = args,
                              !.argv = IF r.err = "nil"
                                       THEN Append(@, CommandArgs(sa.i, args)) ELSE @]
    /\ UNCHANGED <<running, config, parser, fw, watcher, lastParsedLen, mu, watch,
                   kernelVars, watchers, task, faults, calls,
                   parseVars, diskVars, watchVars, serverVars, gPorts, argVars, snap, before>>

\* pm.mu.Lock and the head of the loop
StopAllBegin ==
    /\ sa.pc = "idle"
    /\ lastDone.kind # "StopAll"
    /\ sa' = [sa EXCEPT !.pc = NextChild(0).pc, !.i = NextChild(0).i]
    /\ UNCHANGED <<runnerVars, kernelVars, watchers, task, faults, calls, lastDone,
                   parseVars, diskVars, watchVars, serverVars, gPorts, argVars, snap, before>>

\* proc.Signal(syscall.SIGTERM)
StopAllSignal(fail) ==
    /\ sa.pc = "signal"
    /\ sa' = [sa EXCEPT !.pc = AfterSignal(fail),
                        !.term = @ \cup {sa.i},
                        !.errs = IF fail THEN Append(@, "signal failed") ELSE @]
    /\ UNCHANGED <<runnerVars, kernelVars, watchers, task, faults, calls, lastDone,
                   parseVars, diskVars, watchVars, serverVars, gPorts, argVars, snap, before>>

\* the select on done and time.After(5 * time.Second)
StopAllWait(exits) ==
    /\ sa.pc = "wait"
    /\ sa' = IF exits
             THEN [sa EXCEPT !.pc = NextChild(sa.i).pc, !.i = NextChild(sa.i).i,
                             !.exited = @ \cup {sa.i}]
             ELSE [sa EXCEPT !.pc = "kill", !.timedOut = @ \cup {sa.i}]
    /\ UNCHANGED <<runnerVars, kernelVars, watchers, task, faults, calls, lastDone,
                   parseVars, diskVars, watchVars, serverVars, gPorts, argVars, snap, before>>

\* proc.Kill() in the timeout branch
StopAllKill(fail) ==
    /\ sa.pc = "kill"
    /\ sa' = [sa EXCEPT !.pc = NextChild(sa.i).pc, !.i = NextChild(sa.i).i,
                        !.kill = @ \cup {sa.i},
                        !.errs = IF fail THEN Append(@, "kill failed") ELSE @]
    /\ UNCHANGED <<runnerVars, kernelVars, watchers, task, faults, calls, lastDone,
                   parseVars, diskVars, watchVars, serverVars, gPorts, argVars, snap, before>>

\* pm.processes = nil and the return value
StopAllReturn ==
    /\ sa.pc = "return"
    /\ processes' = <<>>
    /\ sa' = [sa EXCEPT !.pc = "idle",
                        !.ret = IF Len(sa.errs) > 0 THEN "process cleanup errors"
                                ELSE "nil"]
    /\ lastDone' = [kind |-> "StopAll", res |-> sa'.ret, acted |-> TRUE]
    /\ UNCHANGED <<running, config, parser, fw, watcher, lastParsedLen, mu, watch,
                   kernelVars, watchers, task, faults, calls,
                   parseVars, diskVars, watchVars, serverVars, gPorts, argVars, snap, before>>

(***************************************************************************)
(* Specifications                                                          *)
(***************************************************************************)
\* the state NewRunner returns for the valid configuration cfg on disk
InitRunner(cfg) ==
    /\ running = FALSE
    /\ config = cfg
    /\ parser = NewParser(cfg.GameFilterPorts, cfg.GameFilter)
    /\ fw = NewFirewall(cfg)
    /\ processes = <<>>
    /\ watcher = 0
    /\ lastParsedLen = 0
    /\ mu = "none"
    /\ nft = [n \in TableNames |-> NoTable]
    /\ ipt = [x \in Families |-> NoChain]
    /\ watchers = [w \in WatcherIds |-> "free"]
    /\ task = [t \in Tasks |-> IdleTask]
    /\ faults = 0
    /\ calls = 0
    /\ lastDone = [kind |-> "none", res |-> "nil", acted |-> FALSE]
    /\ files = StrategyFiles
    /\ overwritten = -1
    /\ gPorts = <<>>
    /\ aStr = <<>>
    /\ aToks = <<>>
    /\ snap = [taken |-> FALSE]
    /\ sa = IdleStopAll
    /\ before = Status

\* a ConfigWatcher that NewConfigWatcher built and Start set going
InitWatcher ==
    /\ wState = "watching"
    /\ wTimers = {}
    /\ wSince = DebounceTicks
    /\ wBurst = 0
    /\ wEvents = 0
    /\ wWrites = 0
    /\ wFired = 0

\* the scanner loop of Parser.Parse before the first line
InitScanner ==
    /\ pst = [rules |-> <<>>, queueNum |-> 0]
    /\ pSegs = 0
    /\ pLine = <<>>
    /\ pSkipAt = -1

Init ==
    /\ InitRunner(CfgA)
    /\ watch = TRUE
    /\ pGameFilter = TRUE
    /\ InitScanner
    /\ InitWatcher
    /\ InitServer

Next ==
    \/ \E t \in Tasks, op \in {"Start", "Stop", "Restart"} : Call(t, op)
    \/ \E t \in Tasks : StartBegin(t)
    \/ \E t \in Tasks, fail \in {"none", "table", "chain", "v4", "v6"} : StartSetup(t, fail)
    \/ \E t \in Tasks, fail \in {"none", "rule", "v4", "v6"} : StartAddRule(t, fail)
    \/ \E t \in Tasks, fail \in BOOLEAN : StartSpawn(t, fail)
    \/ \E t \in Tasks, fail \in BOOLEAN : StartFinish(t, fail)
    \/ \E t \in Tasks, fail \in BOOLEAN : StopBegin(t, fail)
    \/ \E t \in Tasks, fail \in BOOLEAN : StopProcs(t, fail)
    \/ \E t \in Tasks, fail \in {"none", "v4", "v6"} : StopFinish(t, fail)
    \/ \E t \in Tasks, d \in DiskConfigs : RestartLoad(t, d)
    \/ \E t \in Tasks : RestartSwapConfig(t)
    \/ \E t \in Tasks : RestartSwapFirewall(t)

Spec == Init /\ [][Next]_vars

\* the parser alone, fed every file of at most MaxSegs segments
InitParse ==
    /\ InitRunner(CfgA)
    /\ watch = FALSE
    /\ pGameFilter \in BOOLEAN
    /\ InitScanner
    /\ InitWatcher
    /\ InitServer

NextParse ==
    \/ \E s \in Segments : AddSegment(s)
    \/ ScanLine

SpecParse == InitParse /\ [][NextParse]_vars

\* one ConfigWatcher alone, its events, the clock and its Stop
NextWatch ==
    \/ \E op \in FsOps : WatchEvent(op)
    \/ Tick
    \/ WatchStop

SpecWatch == Init /\ [][NextWatch]_vars

\* hot reload: the daemon starts the runner with the watcher enabled, files are
\* written, the clock ticks, and no subsystem fails
InitReload ==
    /\ InitRunner(CfgReload)
    /\ watch = TRUE
    /\ pGameFilter = TRUE
    /\ InitScanner
    /\ InitWatcher
    /\ InitServer

NextReload ==
    \/ calls = 0 /\ Call("rpc", "Start")
    \/ \E t \in Tasks : StartBegin(t)
    \/ \E t \in Tasks : StartSetup(t, "none")
    \/ \E t \in Tasks : StartAddRule(t, "none")
    \/ \E t \in Tasks : StartSpawn(t, FALSE)
    \/ \E t \in Tasks : StartFinish(t, FALSE)
    \/ \E t \in Tasks : StopBegin(t, FALSE)
    \/ \E t \in Tasks : StopProcs(t, FALSE)
    \/ \E t \in Tasks : StopFinish(t, "none")
    \/ \E t \in Tasks : RestartLoad(t, Yaml(CfgReload))
    \/ \E t \in Tasks : RestartSwapConfig(t)
    \/ \E t \in Tasks : RestartSwapFirewall(t)
    \/ \E path \in {CfgReload.StrategyFile, ConfigPath} : PathWritten(path)
    \/ ReloadTick

SpecReload == InitReload /\ [][NextReload]_vars

\* the daemon: NewTwirpServer starts the runner and serves Restart RPCs, each
\* in a goroutine of its own; the YAML on disk may have become unusable and
\* the firewall setup may fail
NextRpc ==
    \/ calls = 0 /\ Call("rpc", "Start")
    \/ Serve
    \/ ClockTick
    \/ \E t \in Tasks, req \in Requests : RpcRestart(t, req)
    \/ \E t \in Tasks : RpcTrack(t)
    \/ \E t \in Tasks : RpcReply(t)
    \/ \E t \in Tasks : StartBegin(t)
    \/ \E t \in Tasks, fail \in {"none", "table"} : StartSetup(t, fail)
    \/ \E t \in Tasks : StartAddRule(t, "none")
    \/ \E t \in Tasks : StartSpawn(t, FALSE)
    \/ \E t \in Tasks : StartFinish(t, FALSE)
    \/ \E t \in Tasks : StopBegin(t, FALSE)
    \/ \E t \in Tasks : StopProcs(t, FALSE)
    \/ \E t \in Tasks : StopFinish(t, "none")
    \/ \E t \in Tasks, d \in {Yaml(CfgA), Yaml(CfgEmpty), CorruptYaml} : RestartLoad(t, d)
    \/ \E t \in Tasks : RestartSwapConfig(t)
    \/ \E t \in Tasks : RestartSwapFirewall(t)

SpecRpc == Init /\ [][NextRpc]_vars

\* rule generation alone: every port specification of at most MaxPorts
\* elements, for each back-end and with and without a named interface
InitPorts ==
    /\ \E cfg \in {CfgA, CfgB, CfgC, CfgD} : InitRunner(cfg)
    /\ watch = FALSE
    /\ pGameFilter = TRUE
    /\ InitScanner
    /\ InitWatcher
    /\ InitServer

NextPorts ==
    \/ \E e \in PortElems : GenAddPort(e)
    \/ GenRule

SpecPorts == InitPorts /\ [][NextPorts]_vars

\* the parser on every port list of at most MaxPorts elements, with the
\* game filter on and off
NextSubst ==
    \/ \E e \in PortElems \cup {<<GF>>} : SubstAddPort(e)
    \/ SubstScan

SpecSubst == InitParse /\ [][NextSubst]_vars

\* the parser on every line of at most MaxSegs fragments
NextGroups ==
    \/ \E s \in GroupSegments : GroupAdd(s)
    \/ GroupScan

SpecGroups == InitParse /\ [][NextGroups]_vars

\* the parser on every text of at most MaxSegs fragments and line ends
NextLines ==
    \/ \E s \in LineSegments : GroupAdd(s)
    \/ GroupScan

SpecLines == InitParse /\ [][NextLines]_vars

\* the tokenizer on every argument string of at most MaxArgLen characters
NextArgs ==
    \/ \E ch \in ArgChars : ArgType(ch)
    \/ ArgParse

SpecArgs == InitParse /\ [][NextArgs]_vars

\* one goroutine calls Start, Stop and Restart, another one GetStatus; no
\* subsystem fails
NextStatus ==
    \/ \E op \in {"Start", "Stop", "Restart"} : Call("rpc", op)
    \/ StartBegin("rpc")
    \/ StartSetup("rpc", "none")
    \/ StartAddRule("rpc", "none")
    \/ StartSpawn("rpc", FALSE)
    \/ StartFinish("rpc", FALSE)
    \/ StopBegin("rpc", FALSE)
    \/ StopProcs("rpc", FALSE)
    \/ StopFinish("rpc", "none")
    \/ RestartLoad("rpc", Yaml(CfgA))
    \/ RestartSwapConfig("rpc")
    \/ RestartSwapFirewall("rpc")
    \/ GetStatus

SpecStatus == Init /\ [][NextStatus]_vars

\* a ProcessManager is told to start up to MaxChildren children and then to
\* stop them all; every spawn may fail, every child may or may not exit in
\* time, every signal may fail
InitStopAll ==
    /\ InitRunner(CfgA)
    /\ watch = FALSE
    /\ pGameFilter = TRUE
    /\ InitScanner
    /\ InitWatcher
    /\ InitServer

NextStopAll ==
    \/ \E fail \in BOOLEAN, args \in CallerArgs : TrackChild(fail, args)
    \/ StopAllBegin
    \/ \E fail \in BOOLEAN : StopAllSignal(fail)
    \/ \E exits \in BOOLEAN : StopAllWait(exits)
    \/ \E fail \in BOOLEAN : StopAllKill(fail)
    \/ StopAllReturn

SpecStopAll == InitStopAll /\ [][NextStopAll]_vars

\* hot reload when the reload may fail: the daemon starts the runner with the
\* watcher enabled, the YAML is rewritten, sometimes with text that cannot be
\* loaded, and the firewall setup of the Start inside Restart may fail
NextRearm ==
    \/ calls = 0 /\ Call("rpc", "Start")
    \/ \E t \in Tasks : StartBegin(t)
    \/ \E t \in Tasks, fail \in {"none", "v4"} : StartSetup(t, fail)
    \/ \E t \in Tasks : StartAddRule(t, "none")
    \/ \E t \in Tasks : StartSpawn(t, FALSE)
    \/ \E t \in Tasks : StartFinish(t, FALSE)
    \/ \E t \in Tasks : StopBegin(t, FALSE)
    \/ \E t \in Tasks : StopProcs(t, FALSE)
    \/ \E t \in Tasks : StopFinish(t, "none")
    \/ \E t \in Tasks, d \in {Yaml(CfgReload), CorruptYaml} : RestartLoad(t, d)
    \/ \E t \in Tasks : RestartSwapConfig(t)
    \/ \E t \in Tasks : RestartSwapFirewall(t)
    \/ PathWritten(ConfigPath)
    \/ ReloadTick

SpecRearm == InitReload /\ [][NextRearm]_vars

\* the steps of the lifecycle operation goroutine t is in, none of them
\* failing: those after the entry of Start, and all of them
LifecycleRest(t) ==
    \/ StartSetup(t, "none")
    \/ StartAddRule(t, "none")
    \/ StartSpawn(t, FALSE)
    \/ StartFinish(t, FALSE)
    \/ StopBegin(t, FALSE)
    \/ StopProcs(t, FALSE)
    \/ StopFinish(t, "none")
    \/ \E d \in {Yaml(CfgReload), CorruptYaml} : RestartLoad(t, d)
    \/ RestartSwapConfig(t)
    \/ RestartSwapFirewall(t)

LifecycleStep(t) == StartBegin(t) \/ LifecycleRest(t)

\* the watcher's callback against the callers of the control plane: the
\* configuration file is written, the debounce timer fires Restart on its own
\* goroutine, a request handler calls Start, Stop and Restart, and GetStatus
\* read-locks the runner once while both wait for the lock
NextCallback ==
    \/ \E op \in {"Start", "Stop", "Restart"} : Call("rpc", op)
    \/ \E t \in Tasks : LifecycleStep(t)
    \/ PathWritten(ConfigPath)
    \/ ReloadTick
    \/ ~snap.taken /\ task["timer"].pc = "stop" /\ task["rpc"].pc # "idle" /\ GetStatus

SpecCallback == InitReload /\ [][NextCallback]_vars

\* one caller that compares the snapshot before a Start with the one after
\* it; any step of Start may fail
NextObserved ==
    \/ ObservedStart("rpc")
    \/ \E op \in {"Stop", "Restart"} : Call("rpc", op)
    \/ StartBegin("rpc")
    \/ \E fail \in {"none", "table", "chain", "v4", "v6"} : StartSetup("rpc", fail)
    \/ \E fail \in {"none", "rule", "v4", "v6"} : StartAddRule("rpc", fail)
    \/ \E fail \in BOOLEAN : StartSpawn("rpc", fail)
    \/ StartFinish("rpc", FALSE)
    \/ StopBegin("rpc", FALSE)
    \/ StopProcs("rpc", FALSE)
    \/ StopFinish("rpc", "none")
    \/ \E d \in DiskConfigs : RestartLoad("rpc", d)
    \/ RestartSwapConfig("rpc")
    \/ RestartSwapFirewall("rpc")

SpecObserved == Init /\ [][NextObserved]_vars

\* one firewall instance of either back-end, called in any order
NextFirewall ==
    \/ \E fail \in {"none", "table", "chain", "v4", "v6"} : FirewallSetup(fail)
    \/ \E e \in PortElems : FirewallAddRule(e)
    \/ FirewallRemoveAll

SpecFirewall == InitPorts /\ [][NextFirewall]_vars

(***************************************************************************)
(* Vocabulary of the properties                                            *)
(***************************************************************************)
\* task t has made the first step of its operation and not yet the last: a
\* Start or a Stop past its running check, a Restart past the check of its Stop
InFlight(t) ==
    IF task[t].op = "Restart" THEN task[t].pc \notin {"idle", "stop"}
    ELSE task[t].pc \notin {"idle", "start", "stop"}

\* no lifecycle operation is in progress
Quiescent == \A t \in Tasks : task[t].pc = "idle"

\* this step is the return of a Stop of task t (its own or the one in a Restart)
StopReturned(t) ==
    \/ task[t].pc = "stop" /\ task'[t].pc \in {"idle", "load"}
    \/ task[t].pc = "stopFw" /\ task'[t].pc \in {"idle", "load"}

\* this step is the return of a successful Start of task t
StartSucceeded(t) == task[t].pc = "finish" /\ task'[t].pc = "idle"

\* the rules in the kernel structure of the configured firewall instance
KernelRules ==
    IF fw.Backend = "nftables" THEN nft[fw.tableName].rules ELSE ipt["v4"].rules

\* the table (nftables) or the custom chain (iptables) of the instance is gone
FirewallAbsent ==
    IF fw.Backend = "nftables" THEN ~nft[fw.tableName].exists
    ELSE \A x \in Families : ~ipt[x].chain

\* the comments a rule may be said to be configured with: the one the
\* orchestrator puts in the FirewallRule and the one of the firewall instance
ConfiguredComments == {RuleComment, fw.comment} \ {""}

\* the configurations whose strategy file parses to at least one rule
ParsableConfigs == {CfgA, CfgB, CfgC}

\* the snapshot GetStatus returns after the Start of a runner that NewRunner
\* built from cfg, when no subsystem fails
FreshStatus(cfg) ==
    LET n == Len(Parse(NewParser(cfg.GameFilterPorts, cfg.GameFilter),
                       StrategyFiles[cfg.StrategyFile]).Rules)
    IN [Running |-> TRUE, StrategyFile |-> cfg.StrategyFile, ActiveQueues |-> n,
        ActiveProcesses |-> n, FirewallBackend |-> cfg.Backend]

(***************************************************************************)
(* Properties                                                              *)
(***************************************************************************)
\* C1: Start, Stop and Restart are serialized: no operation makes a step
\* between the first and the last step of another, so at most one task is
\* between the first and the last step of its operation.
C1_Serialized ==
    \A t, u \in Tasks : t # u => ~(InFlight(t) /\ InFlight(u))

\* C2: with a valid configuration and no failing subsystem, every Restart,
\* also one that ran while another operation was in flight, returns success
\* from its Start (never "strategy runner already running").
C2_RestartSucceeds ==
    [][\A t \in Tasks :
         /\ task[t].op = "Restart"
         /\ task[t].pc \in {"start", "setup", "add", "spawn", "finish"}
         /\ task'[t].pc = "idle"
         /\ task[t].cfg \in ParsableConfigs
         /\ config \in ParsableConfigs
         /\ faults' = 0
         => lastDone'.res = "nil"]_vars

\* C3: whenever Stop returns, the ProcessManager tracks no child and the
\* configured table or custom chain does not exist.
C3_StopLeavesNothing ==
    [][\A t \in Tasks : StopReturned(t) => Count' = 0 /\ FirewallAbsent']_vars

\* C4: when Start failed in add_rule, the Stop that follows restores the clean
\* state: no table or chain, no installed rule, no child, running false.
C4_StopAfterAddRuleFailure ==
    [][\A t \in Tasks :
         /\ StopReturned(t)
         /\ lastDone.kind = "Start"
         /\ lastDone.res = "add rule failed"
         => FirewallAbsent' /\ KernelRules' = <<>> /\ Count' = 0 /\ ~running']_vars

\* C5 as stated: with no operation in progress, running is true iff the last
\* Start or Stop that returned is a Start that returned success.
C5_RunningIffLastStartSucceeded ==
    Quiescent => (running <=> (lastDone.kind = "Start" /\ lastDone.res = "nil"))

\* C5: with no operation in progress, running is true iff the last Start or
\* Stop that returned is a Start that returned success or a Start that was
\* rejected because the runner was already running.
C5_RunningIffStarted ==
    Quiescent =>
      (running <=> (lastDone.kind = "Start" /\ (lastDone.res = "nil" \/ ~lastDone.acted)))

C5_Witness ==
    /\ Quiescent
    /\ running
    /\ lastDone.kind = "Start"
    /\ lastDone.res = "strategy runner already running"

\* C6: after Start returns success for N parsed rules the kernel holds at
\* least N rules bearing the configured comment, and Count is the number of
\* spawns that succeeded, at most N.
C6_RulesBearComment ==
    [][\A t \in Tasks : StartSucceeded(t) =>
         LET N == Len(task[t].rules)
             marked == {i \in 1..Len(KernelRules') :
                          KernelRules'[i].comment \in ConfiguredComments'}
         IN /\ Cardinality(marked) >= N
            /\ Count' = N - Cardinality(task[t].failedQs)
            /\ Count' <= N]_vars

\* C7: when the spawn of exactly one of the N rules fails, Start returns
\* success with running true, a kernel rule for each of the N queues, a child
\* for every other rule, and Count = N - 1.
C7_OneSpawnFailureTolerated ==
    [][\A t \in Tasks :
         StartSucceeded(t) /\ Cardinality(task[t].failedQs) = 1 =>
           LET rules == task[t].rules
               N == Len(rules)
               queues == {rules[i].QueueNum : i \in 1..N}
           IN /\ lastDone'.res = "nil"
              /\ running'
              /\ \A q \in queues : \E j \in 1..Len(KernelRules') : KernelRules'[j].queue = q
              /\ {processes'[i] : i \in 1..Len(processes')} = queues \ task[t].failedQs
              /\ Count' = N - 1]_vars

C7_Witness ==
    /\ Quiescent
    /\ running
    /\ lastDone.res = "nil"
    /\ lastParsedLen = 2
    /\ Len(KernelRules) = 2
    /\ Count = 1

\* C8: every Stop leaves running false, and a Stop that follows a Stop does
\* nothing: no watcher, child or firewall operation, no change of the runner
\* or the kernel, and it returns no error.
C8_StopIdempotent ==
    [][\A t \in Tasks :
         /\ (StopReturned(t) => ~running')
         /\ (task[t].pc = "stop" /\ task'[t] # task[t] /\ lastDone.kind = "Stop"
               => /\ StopReturned(t)
                  /\ UNCHANGED <<runnerVars, kernelVars, watchers>>
                  /\ lastDone' = [kind |-> "Stop", res |-> "nil", acted |-> FALSE])]_vars

C8_Witness ==
    /\ Quiescent
    /\ lastDone = [kind |-> "Stop", res |-> "nil", acted |-> FALSE]
    /\ lastParsedLen = 2
    /\ calls = 3
    /\ faults = 0

\* C9: the snapshot after a successful Restart of a running runner equals the
\* snapshot after the Start of a runner newly built from the same configuration.
C9_RestartEqualsFreshStart ==
    [][\A t \in Tasks :
         /\ task[t].op = "Restart"
         /\ StartSucceeded(t)
         /\ task[t].didStop
         /\ faults' = 0
         => Status' = FreshStatus(task[t].cfg)]_vars

\* C10: the queue numbers of the emitted rules are 0, 1, ..., N-1 in emission
\* order, and a match skipped for empty arguments consumes none.
C10_QueueNumbersDense ==
    /\ pst.queueNum = Len(pst.rules)
    /\ \A i \in 1..Len(pst.rules) : pst.rules[i].QueueNum = i - 1

C10_Witness ==
    /\ pSkipAt # -1
    /\ Len(pst.rules) > pSkipAt
    /\ Len(pst.rules) >= 2

(***************************************************************************)
(* ConfigWatcher                                                           *)
(***************************************************************************)
\* the callback ran in this step
CallbackRuns == wFired' > wFired

\* C11: a burst of Write events less than the debounce window apart gets the
\* callback exactly once, when the window has elapsed since the last event of
\* the burst and never while the burst is still going on
C11_OncePerBurst ==
    /\ wBurst <= 1
    /\ wSince < DebounceTicks => wBurst = 0
    /\ wWrites > 0 /\ wSince >= DebounceTicks => wBurst = 1

\* a burst of two Write events has ended and its one callback has run
C11_Witness == wWrites >= 2 /\ wFired = 1 /\ wBurst = 1 /\ wSince >= DebounceTicks

\* C12: once Stop has returned the callback never runs again, pending timer or
\* not, and the events after Stop are dropped
C12_NoCallbackAfterStop ==
    [][/\ wState' = "stopped" => ~CallbackRuns
       /\ wState = "stopped" /\ wEvents' > wEvents => wTimers' = wTimers]_vars

\* C14: events that are no Write (create, remove, rename, chmod) arm no timer
\* and never get the callback run
C14_OnlyWritesArm == wWrites = 0 => wTimers = {} /\ wFired = 0

\* two events that are no Write were delivered, the loop still runs, nothing
\* is pending and the callback has not run
C14_Witness ==
    wEvents >= 2 /\ wWrites = 0 /\ wState = "watching" /\ wTimers = {} /\ wFired = 0

\* C13: with the watcher enabled and the runner started on a one-rule strategy
\* file, overwriting that file with a valid two-rule strategy brings about a
\* Restart: once the debounce window has elapsed since the overwrite, no timer
\* is pending and no operation is in progress, GetStatus reports two active
\* queues and running
C13_ReloadAppliesStrategy ==
    overwritten >= DebounceTicks /\ wTimers = {} /\ Quiescent
        => Status.ActiveQueues = 2 /\ Status.Running

(***************************************************************************)
(* Error paths of Start and Restart                                        *)
(***************************************************************************)
\* task t makes the first step of a Start (its own or the one of a Restart)
StartEnters(t) == task[t].pc = "start" /\ task'[t] # task[t]

\* C15: Start called while running returns the already-running error and
\* changes nothing: no parse, no firewall call, no spawn, no new watcher;
\* running, the rule count, the children and the kernel rules stay as they are
C15_StartWhileRunning ==
    [][\A t \in Tasks :
         StartEnters(t) /\ running
         => /\ task'[t].pc = "idle"
            /\ lastDone'.kind = "Start"
            /\ lastDone'.res = "strategy runner already running"
            /\ UNCHANGED <<runnerVars, kernelVars, watchers>>]_vars

\* a Start was refused while two rules and two children were in place
C15_Witness ==
    /\ lastDone.kind = "Start"
    /\ lastDone.res = "strategy runner already running"
    /\ running
    /\ Len(KernelRules) = 2
    /\ Count = 2

\* C16: when the parse fails in Start (file unreadable or no rule in it), Start
\* returns the error with no side effects: no firewall call, no rule, no child,
\* no watcher, and running stays false
C16_ParseFailureNoSideEffects ==
    [][\A t \in Tasks :
         /\ StartEnters(t)
         /\ ~running
         /\ Parse(parser, files[config.StrategyFile]).err # "nil"
         => /\ task'[t].pc = "idle"
            /\ lastDone'.kind = "Start"
            /\ lastDone'.res = "parse failed"
            /\ ~running'
            /\ UNCHANGED <<runnerVars, kernelVars, watchers>>]_vars

\* a Start has returned the parse error of the empty strategy
C16_Witness ==
    /\ lastDone.kind = "Start"
    /\ lastDone.res = "parse failed"
    /\ config = CfgEmpty
    /\ ~running
    /\ Quiescent

\* C17: when the configuration Restart reloads cannot be loaded or fails
\* validation, Restart returns the error without calling Start and leaves the
\* system stopped: running false, no child tracked, the table or chain gone
C17_RestartReloadFailure ==
    [][\A t \in Tasks :
         task[t].pc = "load" /\ task'[t].pc = "idle"
         => ~running' /\ Count' = 0 /\ FirewallAbsent']_vars

(***************************************************************************)
(* The Restart RPC                                                         *)
(***************************************************************************)
\* a Restart RPC with request req is received by goroutine t in this step
RpcReceived(t, req) == task[t].pc = "idle" /\ calls' > calls /\ rpc'[t] # rpc[t]
                       /\ rpc'[t].req = req

\* C18: the Restart RPC with a nil request returns invalid_argument, triggers
\* no Restart of the runner and changes neither restart count nor start time
C18_NilRequestRejected ==
    [][\A t \in Tasks :
         RpcReceived(t, "nil")
         => /\ rpc'[t].code = "invalid_argument"
            /\ task'[t].pc = "idle"
            /\ UNCHANGED <<restartCount, startTime, runnerVars, kernelVars>>]_vars

\* C19: the Restart RPC returns an internal error whenever Runner.Restart
\* fails and then leaves restart count and start time as they are; when
\* Runner.Restart succeeds GetStatus reports running, the restart count grows
\* by exactly one and the reply has the word "restarted" and a timestamp
C19_RestartRpcOutcome ==
    [][\A t \in Tasks :
         /\ (task[t].pc = "reply" /\ task[t].ret # "nil" /\ task'[t] # task[t]
               => /\ rpc'[t].code = "internal"
                  /\ task'[t].pc = "idle"
                  /\ UNCHANGED <<restartCount, startTime>>)
         /\ (task[t].pc # "reply" /\ task'[t].pc = "reply" /\ task'[t].ret = "nil"
               => Status'.Running)
         /\ (task[t].pc = "incr" /\ task'[t] # task[t]
               => /\ restartCount' = restartCount + 1
                  /\ rpc'[t].code = "ok"
                  /\ \E i \in DOMAIN rpc'[t].words : rpc'[t].words[i] = "restarted"
                  /\ rpc'[t].restartedAt = FormatRFC3339(startTime'))]_vars

(***************************************************************************)
(* Port matching                                                           *)
(***************************************************************************)
\* the text s holds the text e
Holds(s, e) == \E i \in 1..Len(s) : IsPrefixAt(s, i, e)

\* C20: for both back-ends and every port specification, the generated rule
\* matches the destination port with a scalar match when the specification is
\* one port or one range, and with a set construct that holds every element
\* when the specification has more than one comma-separated element
C20_PortMatchForm ==
    \A i \in 1..Len(KernelRules) :
       LET r == KernelRules[i]
           elems == ElemsOf(gPorts)
           set == IF fw.Backend = "nftables" THEN Head(r.dport) = "{"
                  ELSE r.match = "--dports"
       IN /\ Len(elems) = 1 => ~set /\ r.dport = elems[1]
          /\ Len(elems) > 1 => set /\ \A j \in 1..Len(elems) : Holds(r.dport, elems[j])

(***************************************************************************)
(* Interface predicate                                                     *)
(***************************************************************************)
\* C21: with the interface "any" no generated rule of either back-end has an
\* outbound-interface predicate (oifname / -o); with a concrete interface name
\* every generated rule has the predicate for exactly that name
C21_InterfacePredicate ==
    \A i \in 1..Len(KernelRules) :
       KernelRules[i].oifname = IF config.Interface = "any" THEN "" ELSE config.Interface

\* rules were generated by both kinds of configuration: here the iptables
\* back-end on eth0 has its rule with the predicate
C21_Witness ==
    /\ fw.Backend = "iptables"
    /\ config.Interface = "eth0"
    /\ Len(KernelRules) = 1
    /\ KernelRules[1].oifname = "eth0"
    /\ Len(ElemsOf(gPorts)) = 2

(***************************************************************************)
(* Firewall.RemoveAll                                                      *)
(***************************************************************************)
\* C22: RemoveAll returns no error also when Setup was never performed, for
\* both back-ends, and after it no table, chain, jump or rule of the instance
\* exists, whatever Setup and AddRule created before
C22_RemoveAllCleans ==
    lastDone.kind = "RemoveAll"
    => /\ lastDone.res = "nil"
       /\ FirewallAbsent
       /\ KernelRules = <<>>
       /\ \A n \in TableNames : nft[n] = NoTable
       /\ \A x \in Families : ipt[x] = NoChain

\* RemoveAll has returned after Setup and two AddRule calls on nftables
C22_Witness ==
    /\ lastDone = [kind |-> "RemoveAll", res |-> "nil", acted |-> TRUE]
    /\ fw.Backend = "nftables"
    /\ calls = 4
    /\ faults = 0

(***************************************************************************)
(* %GameFilter% with the game filter disabled                              *)
(***************************************************************************)
\* the port list without its %GameFilter% elements
PortsWithoutToken ==
    JoinWith(SelectSeq(ElemsOf(gPorts), LAMBDA e : e # <<GF>>), <<COMMA>>)

\* the text s has no leading, trailing or doubled comma and no token
WellFormedPorts(s) ==
    /\ s # <<>>
    /\ Head(s) # COMMA
    /\ s[Len(s)] # COMMA
    /\ ~Contains(s, <<COMMA, COMMA>>)
    /\ ~Contains(s, <<GF>>)

\* C23: with the game filter disabled, a port list that holds %GameFilter% at
\* any position loses the token and its adjacent comma: the rule carries the
\* remaining elements, with no leading, trailing or doubled comma ("443" for
\* "443,%GameFilter%"), and no rule is emitted with an ill-formed port set
C23_TokenRemoved ==
    pLine # <<>> /\ ~pGameFilter /\ Contains(gPorts, <<GF>>)
    => /\ \A i \in 1..Len(pst.rules) :
             /\ WellFormedPorts(pst.rules[i].Ports)
             /\ pst.rules[i].Ports = PortsWithoutToken
       /\ PortsWithoutToken # <<>> => Len(pst.rules) = 1

\* the line with the port list "443,%GameFilter%" was parsed with the game
\* filter disabled and gave one rule with the ports "443"
C23_Witness ==
    /\ pLine # <<>>
    /\ ~pGameFilter
    /\ gPorts = <<"443", COMMA, GF>>
    /\ Len(pst.rules) = 1
    /\ pst.rules[1].Ports = <<"443">>

(***************************************************************************)
(* Several groups on one line                                              *)
(***************************************************************************)
\* the pieces of the line between its --new marks
RECURSIVE SplitNew(_)
SplitNew(line) ==
    LET n == FirstNew(line, 1) IN
    IF n > Len(line) THEN <<line>>
    ELSE <<SubSeq(line, 1, n - 1)>> \o SplitNew(SubSeq(line, n + 1, Len(line)))

\* the trimmed piece t is a group "--filter-(tcp|udp)=<ports> <args>": one
\* filter, a port string, and arguments (maybe none) after white space
IsGroup(t) ==
    LET pe == RunEnd(t, 2, PortSyms) IN
    /\ t[1] \in {FT, FU}
    /\ pe >= 2
    /\ pe = Len(t) \/ t[pe + 1] = SP
    /\ \A i \in 2..Len(t) : t[i] \notin {FT, FU}

\* every piece of the line is a group, or is blank
GroupsOnly(gs) ==
    \A i \in 1..Len(gs) :
       LET t == TrimSpace(gs[i]) IN t = <<>> \/ IsGroup(t)

\* the rules of the groups gs with arguments, numbered from q
RECURSIVE GroupRules(_, _)
GroupRules(gs, q) ==
    IF gs = <<>> THEN <<>>
    ELSE LET t == TrimSpace(Head(gs))
             pe == RunEnd(t, 2, PortSyms)
             args == TrimSpace(SubSeq(t, pe + 1, Len(t)))
         IN IF t = <<>> \/ args = <<>> THEN GroupRules(Tail(gs), q)
            ELSE <<[Protocol |-> IF t[1] = FT THEN "tcp" ELSE "udp",
                    Ports |-> SubSeq(t, 2, pe),
                    NFQWSArgs |-> cleanArgs(args),
                    QueueNum |-> q]>> \o GroupRules(Tail(gs), q + 1)

\* the groups of the line that was read, after variable substitution
GroupsRead ==
    SplitNew(substituteVariables(NewParser(DefaultGameFilterPorts, pGameFilter),
                                 Flatten(pLine)))

\* C24: a line of "--filter-(tcp|udp)=<ports> <args>" groups separated by
\* --new yields one rule per group with non-empty arguments, from left to
\* right, each with the protocol, the port string and the arguments of its own
\* group only, and --new is in no rule's arguments
C24_OneRulePerGroup ==
    /\ lastDone.kind = "Scan"
    /\ ~isSkipLine(Flatten(pLine))
    /\ GroupsOnly(GroupsRead)
    => /\ pst.rules = GroupRules(GroupsRead, 0)
       /\ \A i \in 1..Len(pst.rules) : ~Contains(pst.rules[i].NFQWSArgs, <<NewMark>>)

\* the line "--filter-tcp=443 <fake> --new --filter-udp=443,%GameFilter% <split>"
\* was read and gave the tcp rule with the first argument and the udp rule with
\* the second, on queues 0 and 1
C24_Witness ==
    /\ lastDone.kind = "Scan"
    /\ pLine = << <<FT, "443", SP, ArgFake, SP, NewMark, SP>>,
                  <<FU, "443", COMMA, GF, SP, ArgSplit>> >>
    /\ GroupsOnly(GroupsRead)
    /\ Len(pst.rules) = 2
    /\ pst.rules[1] = [Protocol |-> "tcp", Ports |-> <<"443">>,
                       NFQWSArgs |-> <<ArgFake>>, QueueNum |-> 0]
    /\ pst.rules[2].Protocol = "udp"
    /\ pst.rules[2].NFQWSArgs = <<ArgSplit>>
    /\ pst.rules[2].QueueNum = 1

(***************************************************************************)
(* Line continuation                                                       *)
(***************************************************************************)
\* the logical line of the text that was read: a ^ at the end of a physical
\* line joins it to the next one
LogicalLine == ReplaceAll(Flatten(pLine), <<CARET, NL>>, <<>>)

\* the groups of the logical line, after variable substitution
LogicalGroups ==
    SplitNew(substituteVariables(NewParser(DefaultGameFilterPorts, pGameFilter),
                                 LogicalLine))

\* C25: a trailing ^ is a line continuation: the physical lines that end in ^
\* are joined with the line that follows before the rules are extracted, so a
\* rule whose arguments continue on the next physical line is emitted with the
\* arguments of both lines
C25_ContinuationJoins ==
    /\ lastDone.kind = "Scan"
    /\ Contains(Flatten(pLine), <<CARET, NL>>)
    /\ ~isSkipLine(LogicalLine)
    /\ GroupsOnly(LogicalGroups)
    => pst.rules = GroupRules(LogicalGroups, 0)

(***************************************************************************)
(* Tokenization of the arguments                                           *)
(***************************************************************************)
\* what the Go library takes for white space, of the characters of ArgChars
Whitespace == {SP, TAB}

\* the characters of s without its double quotes, each marked as a separator
\* (a character of W outside quotes) or as a character of a token
RECURSIVE Marked(_, _, _)
Marked(s, inQuotes, W) ==
    IF s = <<>> THEN <<>>
    ELSE IF Head(s) = QUOTE THEN Marked(Tail(s), ~inQuotes, W)
    ELSE <<[ch |-> Head(s), sep |-> Head(s) \in W /\ ~inQuotes]>>
         \o Marked(Tail(s), inQuotes, W)

\* s with its quotes and its unquoted separators removed
Unquoted(s, W) ==
    LET m == SelectSeq(Marked(s, FALSE, W), LAMBDA c : ~c.sep) IN
    [i \in 1..Len(m) |-> m[i].ch]

\* the number of maximal runs of token characters of s
Words(s, W) ==
    LET m == Marked(s, FALSE, W) IN
    Cardinality({i \in 1..Len(m) : ~m[i].sep /\ (i = 1 \/ m[i - 1].sep)})

\* the tokens made are those of a split at the characters of W outside quotes
SplitAt(W) ==
    /\ \A i \in 1..Len(aToks) :
          /\ aToks[i] # <<>>
          /\ \A j \in 1..Len(aToks[i]) : aToks[i][j] # QUOTE
    /\ Flatten(aToks) = Unquoted(aStr, W)
    /\ Len(aToks) = Words(aStr, W)

BodyPcs == {"setup", "add", "spawn", "finish", "stopProcs", "stopFw"}

\* C27: GetStatus never overlaps the body of Start or Stop: no snapshot is
\* read while a goroutine is inside one of them, so none shows a Start or a
\* Stop half done (workers without running, or running with a part of the
\* workers of its queues)
C27_SnapshotNotMidway ==
    snap.taken
    => /\ snap.during \cap BodyPcs = {}
       /\ snap.status.Running => snap.status.ActiveProcesses = snap.status.ActiveQueues
       /\ ~snap.status.Running => snap.status.ActiveProcesses = 0

\* GetStatus returned the snapshot of the running runner with its two
\* workers, and a Stop now holds the lock, its workers not yet stopped
C27_Witness ==
    /\ snap.taken
    /\ snap.status.Running
    /\ snap.status.ActiveProcesses = 2
    /\ mu = "rpc"
    /\ task["rpc"].pc = "stopProcs"
    /\ Count = 2

(***************************************************************************)
(* The order of the steps of Start                                         *)
(***************************************************************************)
\* task t makes an iteration of the add-rule loop, of the spawn loop
AddStep(t) == task[t].pc = "add" /\ task'[t] # task[t]
SpawnStep(t) == task[t].pc = "spawn" /\ task'[t] # task[t]

\* the kernel rules of the instance hold a rule for queue q
Installed(q) == \E k \in 1..Len(KernelRules) : KernelRules[k].queue = q

\* C28: within one Start the firewall setup precedes every add_rule, the
\* rules are added in emission order, every add_rule precedes every spawn, the
\* workers are spawned in the same order, and the rule and the worker at
\* emission index i use queue i: no worker is started for a queue whose rule
\* is not installed
C28_StartOrder ==
    [][\A t \in Tasks :
         LET i == task[t].i
             rules == task[t].rules
         IN /\ task[t].pc # "add" /\ task'[t].pc = "add" => task[t].pc = "setup"
            /\ AddStep(t)
               => /\ ~FirewallAbsent
                  /\ rules[i].QueueNum = i - 1
                  /\ task'[t].pc \in {"add", "spawn"}
                     => /\ Len(KernelRules') = Len(KernelRules) + 1
                        /\ KernelRules'[Len(KernelRules')].queue = i - 1
                        /\ task'[t].pc = "spawn" <=> i = Len(rules)
                        /\ task'[t].pc = "add" => task'[t].i = i + 1
            /\ task[t].pc # "spawn" /\ task'[t].pc = "spawn" => task[t].pc = "add"
            /\ SpawnStep(t)
               => /\ rules[i].QueueNum = i - 1
                  /\ \A j \in 1..Len(rules) : Installed(j - 1)
                  /\ processes' \in {processes, Append(processes, i - 1)}
                  /\ task'[t].i = i + 1
                  /\ task'[t].pc # "add"
      ]_vars

\* a Start of two rules is in its spawn loop: both rules are installed, for
\* queues 0 and 1 in this order, and the worker of queue 0 alone is started
C28_Witness ==
    \E t \in Tasks :
       /\ task[t].pc = "spawn"
       /\ task[t].i = 2
       /\ Len(task[t].rules) = 2
       /\ processes = <<0>>
       /\ Len(KernelRules) = 2
       /\ KernelRules[1].queue = 0
       /\ KernelRules[2].queue = 1

(***************************************************************************)
(* The order of the steps of Stop                                          *)
(***************************************************************************)
\* C29: in every Stop on a running runner the teardown order is watcher,
\* workers, firewall: the watcher is stopped and dropped before stop_all is
\* called, with the workers and the firewall still untouched, and stop_all has
\* returned, with no worker left, before remove_all is called
C29_StopOrder ==
    [][\A t \in Tasks :
         /\ task[t].pc # "stopProcs" /\ task'[t].pc = "stopProcs"
            => /\ task[t].pc = "stop"
               /\ running
               /\ watcher' = 0
               /\ watcher # 0 => watchers'[watcher] # "armed"
               /\ UNCHANGED <<processes, fw, nft, ipt>>
         /\ task[t].pc = "stopProcs" /\ task'[t] # task[t]
            => /\ watcher = 0
               /\ processes' = <<>>
               /\ task'[t].pc = "stopFw"
               /\ UNCHANGED <<fw, nft, ipt>>
         /\ task[t].pc # "stopFw" /\ task'[t].pc = "stopFw"
            => task[t].pc = "stopProcs"
         /\ task[t].pc = "stopFw" /\ task'[t] # task[t]
            => /\ watcher = 0
               /\ processes = <<>>
      ]_vars

\* a Stop of the runner that was started without a failure is about to call
\* remove_all: its watcher is gone, its workers are stopped and the rules of
\* the firewall are still in place
C29_Witness ==
    \E t \in Tasks :
       /\ task[t].pc = "stopFw"
       /\ faults = 0
       /\ running
       /\ watcher = 0
       /\ \A w \in WatcherIds : watchers[w] # "armed"
       /\ processes = <<>>
       /\ Len(KernelRules) = 2

(***************************************************************************)
(* Stop drains every subsystem                                             *)
(***************************************************************************)
\* the subsystem called in this step reported an error
StepFailed == faults' > faults

\* C30: Stop on a running runner drains all subsystems whatever fails: after
\* the watcher, with or without an error, stop_all is called; after stop_all,
\* with or without an error, remove_all is called; running is set to false;
\* and Stop returns the aggregate error if and only if one of the three steps
\* reported an error
C30_StopDrains ==
    [][\A t \in Tasks :
         /\ task[t].pc = "stop" /\ task'[t] # task[t] /\ running
            => /\ task'[t].pc = "stopProcs"
               /\ task'[t].errs = StepFailed
         /\ task[t].pc = "stopProcs" /\ task'[t] # task[t]
            => /\ task'[t].pc = "stopFw"
               /\ processes' = <<>>
               /\ task'[t].errs = (task[t].errs \/ StepFailed)
         /\ task[t].pc = "stopFw" /\ task'[t] # task[t]
            => /\ ~running'
               /\ ~StepFailed => FirewallAbsent'
               /\ lastDone'.kind = "Stop"
               /\ lastDone'.res = IF task[t].errs \/ StepFailed
                                  THEN "stop errors" ELSE "nil"
      ]_vars

\* a Stop whose only failure was in the watcher or in stop_all has returned
\* the aggregate error: the runner is not running, no worker is left and the
\* firewall is removed
C30_Witness ==
    /\ lastDone = [kind |-> "Stop", res |-> "stop errors", acted |-> TRUE]
    /\ faults = 1
    /\ ~running
    /\ processes = <<>>
    /\ FirewallAbsent
    /\ KernelRules = <<>>
    /\ Quiescent

(***************************************************************************)
(* ProcessManager.StopAll                                                  *)
(***************************************************************************)
\* the children the loop of StopAll is done with
Attempted == sa.exited \cup sa.kill

\* C31: StopAll attempts every tracked child: each is sent the termination
\* signal and waited for, and is killed only if it did not exit within the
\* wait; a signal or kill failure on one child does not keep the others from
\* being attempted; when StopAll returns the tracked list is empty, with or
\* without errors
C31_StopAllAttemptsAll ==
    /\ sa.kill \subseteq sa.timedOut
    /\ sa.exited \cap sa.kill = {}
    /\ Attempted \subseteq sa.term
    /\ sa.pc \in {"signal", "wait", "kill"}
       => /\ sa.i \in 1..Len(processes)
          /\ Attempted = 1..(sa.i - 1)
          /\ sa.term = 1..(IF sa.pc = "signal" THEN sa.i - 1 ELSE sa.i)
    /\ lastDone.kind = "StopAll"
       => /\ processes = <<>>
          /\ Attempted = sa.term
          /\ Attempted = 1..Cardinality(Attempted)
          /\ lastDone.res = "nil" <=> sa.errs = <<>>
    /\ sa.pc = "return" => Attempted = 1..Len(processes)

\* StopAll has returned with errors after three children: the first could not
\* be signalled and exited, the second was killed after the wait, the third
\* exited when signalled; nothing is tracked any more
C31_Witness ==
    /\ lastDone = [kind |-> "StopAll", res |-> "process cleanup errors", acted |-> TRUE]
    /\ sa.errs = <<"signal failed">>
    /\ sa.term = {1, 2, 3}
    /\ sa.exited = {1, 3}
    /\ sa.kill = {2}
    /\ processes = <<>>

(***************************************************************************)
(* ProcessManager.Start                                                    *)
(***************************************************************************)
\* this step is a call of ProcessManager.Start
PMStartStep == sa'.i = sa.i + 1 /\ sa'.pc = "idle" /\ lastDone'.kind = "PMStart"

\* C32: a ProcessManager.Start that fails to spawn returns the error and
\* leaves the tracked list as it is, its children neither dropped nor
\* signalled; one that succeeds appends exactly one child, spawned with
\* "--daemon --qnum=<N>" before the caller's arguments, so that Count grows
\* by one
C32_StartTracksOne ==
    [][PMStartStep
       => IF lastDone'.res # "nil"
          THEN /\ processes' = processes
               /\ sa'.argv = sa.argv
               /\ sa'.term = sa.term /\ sa'.kill = sa.kill
          ELSE /\ Count' = Count + 1
               /\ SubSeq(processes', 1, Count) = processes
               /\ processes'[Count'] = sa.i
               /\ Len(sa'.argv) = Len(sa.argv) + 1
               /\ SubSeq(sa'.argv, 1, Len(sa.argv)) = sa.argv
               /\ sa'.argv[Len(sa'.argv)]
                    = <<"--daemon", "--qnum=" \o ToString(sa.i)>> \o sa'.args
      ]_vars

\* the first Start spawned the child of queue 0 with one argument of the
\* caller, and the second Start failed: the first child is still tracked
C32_Witness ==
    /\ lastDone = [kind |-> "PMStart", res |-> "failed to start nfqws", acted |-> FALSE]
    /\ sa.i = 2
    /\ processes = <<0>>
    /\ sa.argv = << <<"--daemon", "--qnum=0", ArgFake>> >>

(***************************************************************************)
(* The instance and the configuration of a running runner                  *)
(***************************************************************************)
\* C33: while running is true the firewall instance and the configuration the
\* runner holds are the ones the installed rules were created with: neither
\* is replaced between a successful Start and the next Stop, whatever the
\* interleaving of Restart, Start and Stop
C33_NoSwapWhileRunning ==
    [][running /\ running' => config' = config /\ fw' = fw]_vars

(***************************************************************************)
(* Hot reload after a failed reload                                        *)
(***************************************************************************)
\* C34: with watch enabled hot reload stays armed: once the runner has been
\* started and the Restarts the watcher triggered have returned, with or
\* without an error, the runner holds a watcher that is watching, so that the
\* next burst of writes to the watched file triggers a Restart again
C34_ReloadStaysArmed ==
    watch /\ Quiescent /\ wFired > 0 /\ wTimers = {}
    => watcher # 0 /\ watchers[watcher] = "armed"

(***************************************************************************)
(* The Restart of the watcher's callback                                   *)
(***************************************************************************)
\* the position of a goroutine inside Restart, in the order of the code
Rank(pc) ==
    CASE pc = "stop" -> 1 [] pc = "stopProcs" -> 2 [] pc = "stopFw" -> 3
      [] pc = "load" -> 4 [] pc = "swapCfg" -> 5 [] pc = "swapFw" -> 6
      [] pc = "start" -> 7 [] pc = "setup" -> 8 [] pc = "add" -> 9
      [] pc = "spawn" -> 10 [] pc = "finish" -> 11 [] OTHER -> 12

\* goroutine t can take its next step now; the entry of Start is a plain
\* r.mu.Lock(), whose every branch goes on
CanProceed(t) ==
    IF task[t].pc = "start" THEN mu = "none" ELSE ENABLED LifecycleRest(t)

\* the callback's goroutine is not stuck: it can go on, or the goroutine that
\* holds the lock can, and that one releases the lock without waiting
CallbackNotStuck ==
    task["timer"].pc # "idle"
    => \/ CanProceed("timer")
       \/ mu = "rpc" /\ task["rpc"].pc # "start" /\ ENABLED LifecycleRest("rpc")

\* a step of the callback's goroutine inside Restart moves it forward: to a
\* later position, or to the next iteration of the loop it is in
CallbackAdvances ==
    task["timer"].pc # "idle" /\ task'["timer"] # task["timer"]
    => \/ Rank(task'["timer"].pc) > Rank(task["timer"].pc)
       \/ /\ task'["timer"].pc = task["timer"].pc
          /\ task'["timer"].i > task["timer"].i
          /\ task'["timer"].i <= Len(task["timer"].rules)

\* C35: a Restart called from the watcher's on-change callback terminates:
\* every step of the callback's goroutine moves it forward through the finitely
\* many positions of Restart, and in every state it reaches it is not stuck,
\* whatever the request handler and GetStatus do with the lock and although
\* the Stop inside that Restart stops the watcher that fired it
C35_CallbackRestartTerminates ==
    [][CallbackAdvances /\ CallbackNotStuck']_vars

\* the callback's Restart has stopped the watcher, started the runner again
\* and returned while a request handler waits for the lock and GetStatus ran
C35_Witness ==
    /\ wFired > 0
    /\ task["timer"].pc = "idle"
    /\ running
    /\ watcher # 0
    /\ task["rpc"].pc \in {"start", "stop"}
    /\ snap.taken

(***************************************************************************)
(* The chain after a successful Start                                      *)
(***************************************************************************)
\* the rules the kernel holds in the chain of the instance, per family
ChainContents ==
    IF fw.Backend = "nftables" THEN {nft[fw.tableName].rules}
    ELSE {ipt[x].rules : x \in Families}

\* C36: when a Start returns nil the chain of the daemon holds exactly the
\* rules of the strategy that Start parsed, one per rule and in emission
\* order, whatever happened before: no stale and no duplicated rule
C36_ChainIsStrategy ==
    [][\A t \in Tasks :
         StartSucceeded(t)
         => \A c \in ChainContents' :
               /\ Len(c) = Len(task[t].rules)
               /\ \A i \in 1..Len(c) : c[i].queue = task[t].rules[i].QueueNum
      ]_vars

(***************************************************************************)
(* The snapshot around a Start that fails                                  *)
(***************************************************************************)
\* this step is the return of an error by the Start that task t called
StartFailed(t) ==
    /\ task[t].op = "Start"
    /\ task[t].pc \in {"start", "setup", "add"}
    /\ task'[t].pc = "idle"

\* C37: a Start that returns an error (already running, parse failure,
\* firewall setup failure, add_rule failure) leaves the GetStatus snapshot as
\* it was when Start was called: running, strategy_file, active_queues,
\* active_processes and firewall_backend are all unchanged
C37_FailedStartKeepsStatus ==
    [][\A t \in Tasks : StartFailed(t) => Status' = before]_vars

(***************************************************************************)
(* The restart count under concurrent handlers                             *)
(***************************************************************************)
\* C38: the restart count is the number of Restart RPCs that returned
\* success: the reply of every successful RPC adds exactly one to the count
\* in force when it is sent, and its restart number differs from the number in
\* the successful reply any other handler has sent
C38_RestartCountExact ==
    [][\A t \in Tasks :
         task[t].pc = "incr" /\ task'[t] # task[t]
         => /\ restartCount' = restartCount + 1
            /\ rpc'[t].number = restartCount'
            /\ \A u \in Tasks \ {t} :
                  rpc[u].code = "ok" => rpc'[t].number # rpc[u].number]_vars

(***************************************************************************)
(* The children the ProcessManager tracks                                  *)
(***************************************************************************)
\* C39: when no lifecycle operation is in progress and the runner is not
\* running the ProcessManager tracks no child, and at all times it tracks at
\* most as many children as the last parse gave rules, so that GetStatus never
\* reports more active processes than active queues
C39_ChildrenBounded ==
    /\ Quiescent /\ ~running => Count = 0
    /\ Count <= lastParsedLen
    /\ Status.ActiveProcesses <= Status.ActiveQueues

\* a Start of the two-rule strategy lost one worker at spawn and returned nil:
\* the runner is at rest with one child for two queues
C39_Witness ==
    /\ Quiescent
    /\ running
    /\ lastParsedLen = 2
    /\ Count = 1

(***************************************************************************)
(* The watcher instances                                                   *)
(***************************************************************************)
\* the ConfigWatcher instances that are watching: built, started, not stopped
Armed == {w \in WatcherIds : watchers[w] = "armed"}

\* C40: at most one ConfigWatcher is armed at any time; the only armed watcher
\* is the one the runner holds, so that ConfigWatcher.Stop, which Stop calls on
\* the watcher it holds and then drops, is called on a watcher that was not
\* stopped before and never twice on one instance; and the runner holds a
\* watcher only while running is true
C40_OneWatcher ==
    /\ Cardinality(Armed) <= 1
    /\ Armed = {watcher} \ {0}
    /\ watcher # 0 => running

\* the Stop inside a Restart has stopped and dropped the watcher of the running
\* runner while the other goroutine waits for the lock with a Stop of its own
C40_Witness ==
    \E t \in Tasks, u \in Tasks :
       /\ t # u
       /\ task[t].op = "Restart"
       /\ task[t].pc = "stopProcs"
       /\ task[u].pc = "stop"
       /\ running
       /\ watcher = 0
       /\ Armed = {}
       /\ lastDone = [kind |-> "Start", res |-> "nil", acted |-> TRUE]

=============================================================================
